---- MODULE Spec2Model ----
(***************************************************************************)
(* Model of the blog backend: slug generation (utils/slug.js), the post    *)
(* handlers create / updatepost / deletepost (post.controller.js), the     *)
(* user handlers updateUser / deleteUser (visitor.controller.js), the      *)
(* profile-picture upload route (user.route.js), the Google sign-in, and   *)
(* the asset-service wrapper deleteFromCloudinary (config/cloudinary.js).  *)
(*                                                                         *)
(* Several specifications share the variables:                             *)
(*   SpecSlug    one request at a time: bare generateSlug calls over every *)
(*               short title, and create requests;                         *)
(*   Spec        create and updatepost requests, interleaved at every      *)
(*               await;                                                    *)
(*   SpecDel     deletepost and deleteUser requests, interleaved at every  *)
(*               await, over a store of posts and comments;                *)
(*   SpecUser    updateUser, profile-picture upload and Google sign-in     *)
(*               requests, interleaved at every await;                     *)
(*   SpecDB      connectDB, its timers and the connection events           *)
(*               (config/db.js); SpecDBFair adds the fairness of timers    *)
(*               and of the settling of mongoose.connect;                  *)
(*   SpecApply   applyForId requests (NGO controller);                     *)
(*   SpecComment likeComment, editComment and deleteComment requests       *)
(*               (comment.controller.js);                                  *)
(*   SpecVisitor trackVisitor requests (visitor.controller.js).            *)
(*                                                                         *)
(* Text is a sequence of one-character tokens.  The alphabet has one       *)
(* representative per class the code distinguishes: an upper-case Latin    *)
(* letter "A", a lower-case Latin letter "a", a digit "1", a blank " ",    *)
(* a character slugify removes and the fallback strips "/", a character    *)
(* slugify's charMap spells out "%", and a non-Latin letter "bn".          *)
(* Every await of a handler is one step of its request slot.               *)
(***************************************************************************)
EXTENDS Integers, Sequences, FiniteSets, TLC

VARIABLES
  posts,          \* the Post collection
  comments,       \* the Comment collection
  users,          \* the User collection
  cloud,          \* public ids of the assets the asset service holds
  req,            \* the requests in flight: handler, position, locals
  now,            \* the last value Date.now() returned
  nextPostId,     \* _id of the next post inserted
  returned,       \* results of the bare generateSlug calls, in order
  started,        \* number of requests received so far
  applications,   \* the NgoApplication collection
  visitors,       \* the Visitor collection
  isConnecting,   \* the flag of the database module
  readyState,     \* mongoose.connection.readyState
  attempts,       \* mongoose.connect calls that have not settled yet
  timers,         \* pending setTimeout(connectDB, 5000) timers
  listeners,      \* 'disconnected' handlers registered on the connection
  reachable       \* whether the database server can be reached

\* the variables of the database module (config/db.js)
dbVars == <<isConnecting, readyState, attempts, timers, listeners, reachable>>

vars ==
  <<posts, comments, users, cloud, req, now, nextPostId, returned, started,
    applications, visitors, dbVars>>

(***************************************************************************)
(* Bounds                                                                  *)
(***************************************************************************)
MaxLen == 2          \* longest title handed to a bare generateSlug call
MaxCalls == 2        \* generateSlug calls in one behaviour of SpecSlug
MaxNow == 1          \* largest value the millisecond clock takes
MaxPosts == 2        \* posts ever inserted in one behaviour
MaxReqs == 2         \* requests in flight at the same time
MaxOps == 2          \* requests received in one behaviour
MaxListeners == 6    \* 'disconnected' handlers registered in one behaviour

(***************************************************************************)
(* Program constants                                                       *)
(***************************************************************************)
TitleMinLen == 3
TitleMaxLen == 200
CloudinaryRetries == 3
DuplicateKey == 11000
CommentMaxLen == 200

Alphabet == {"A", "a", "1", " ", "/", "%", "bn"}

Reqs == 1..MaxReqs

RECURSIVE SeqsUpTo(_, _)
SeqsUpTo(S, n) ==
  IF n = 0 THEN {<<>>}
  ELSE LET shorter == SeqsUpTo(S, n - 1)
       IN  shorter \cup {Append(s, c) : s \in {t \in shorter : Len(t) = n - 1}, c \in S}

(***************************************************************************)
(* String primitives of JavaScript used by the code                        *)
(***************************************************************************)
IsSpace(c) == c = " "

toLowerCase(s) == [k \in 1..Len(s) |-> IF s[k] = "A" THEN "a" ELSE s[k]]

RECURSIVE trimStart(_)
trimStart(s) == IF s # <<>> /\ IsSpace(Head(s)) THEN trimStart(Tail(s)) ELSE s

RECURSIVE trimEnd(_)
trimEnd(s) ==
  IF s # <<>> /\ IsSpace(s[Len(s)]) THEN trimEnd(SubSeq(s, 1, Len(s) - 1)) ELSE s

trim(s) == trimEnd(trimStart(s))

\* s.replace(/\s+/g, rep)
RECURSIVE replaceSpaceRuns(_, _)
replaceSpaceRuns(s, rep) ==
  IF s = <<>> THEN <<>>
  ELSE IF IsSpace(Head(s)) THEN <<rep>> \o replaceSpaceRuns(trimStart(s), rep)
  ELSE <<Head(s)>> \o replaceSpaceRuns(Tail(s), rep)

\* s.replace(/[...]/g, '') for a character class given as a set
removeChars(s, class) == SelectSeq(s, LAMBDA c : c \notin class)

RECURSIVE Digits(_)
Digits(n) ==
  LET d == <<"0", "1", "2", "3", "4", "5", "6", "7", "8", "9">>
  IN  IF n < 10 THEN <<d[n + 1]>> ELSE Digits(n \div 10) \o <<d[(n % 10) + 1]>>

(***************************************************************************)
(* slugify(title, {lower: false, trim: true, strict: false})               *)
(***************************************************************************)
\* characters outside /[\w\s$*_+~.()'"!\-:@]/, which slugify drops
SlugifyRemoved == {"/", "bn"}

\* charMap spells the percent sign out; "-" (the replacement) becomes a blank
slugifyChar(c) ==
  LET mapped == IF c = "%" THEN "percent" ELSE c
      spaced == IF mapped = "-" THEN " " ELSE mapped
  IN  removeChars(<<spaced>>, SlugifyRemoved)

RECURSIVE slugifyChars(_)
slugifyChars(s) ==
  IF s = <<>> THEN <<>> ELSE slugifyChar(Head(s)) \o slugifyChars(Tail(s))

slugify(title) == replaceSpaceRuns(trim(slugifyChars(title)), "-")

(***************************************************************************)
(* generateSlug: the base candidate (steps 1-3) and the candidates tried   *)
(***************************************************************************)
\* characters stripped by step 2: / \ ? # %
FallbackStripped == {"/", "%"}

titleFallback(title) == removeChars(replaceSpaceRuns(trim(title), "-"), FallbackStripped)

IsBlank(s) == Len(trim(s)) = 0

\* the chain ending in a fixed word
baseSlugOfFixedWord(title, t) ==
  LET s1 == slugify(title)
      s2 == IF IsBlank(s1) THEN titleFallback(title) ELSE s1
  IN  IF IsBlank(s2) THEN <<"bangla-motivation">> ELSE s2

\* the chain without its last fallback
baseSlugOfNoClock(title, t) ==
  LET s1 == slugify(title)
  IN  IF IsBlank(s1) THEN titleFallback(title) ELSE s1

baseSlugOf(title, t) ==
  LET s1 == slugify(title)
      s2 == IF IsBlank(s1) THEN titleFallback(title) ELSE s1
  IN  IF IsBlank(s2) THEN <<"post-">> \o Digits(t) ELSE s2

\* step 3 is reached: Date.now() is read
readsClock(title) == IsBlank(slugify(title)) /\ IsBlank(titleFallback(title))

\* the suffix taken one too far
suffixedFromTwo(baseSlug, k) == baseSlug \o <<"-">> \o Digits(k + 1)

\* `${baseSlug}-${i}`
suffixed(baseSlug, k) == baseSlug \o <<"-">> \o Digits(k)

(***************************************************************************)
(* The stores                                                              *)
(***************************************************************************)
\* an image URL: host, whether the path has an "upload" segment, the
\* version segment, the path after it, the extension
NoImage == [host |-> "", upload |-> FALSE, version |-> 0, id |-> "", ext |-> ""]

HostedUrl(id, version) ==
  [host |-> "res.cloudinary.com", upload |-> TRUE, version |-> version,
   id |-> id, ext |-> "png"]

PixabayUrl ==
  [host |-> "cdn.pixabay.com", upload |-> FALSE, version |-> 0,
   id |-> "blank-profile-picture", ext |-> "png"]

\* the avatar of a Google account
GoogleUrl ==
  [host |-> "lh3.googleusercontent.com", upload |-> FALSE, version |-> 0,
   id |-> "a/avatar", ext |-> ""]

NoDoc == [id |-> 0, userId |-> 0, title |-> <<>>, slug |-> <<>>, image |-> NoImage]

\* the users registered before the behaviour starts: 1 and 2 are
\* administrators, 3 is not; 1 has uploaded a picture, 2 has the default
\* picture, 3 has signed in with Google
Users == {1, 2, 3}
Admins == {1, 2}

\* the username of a registered user: seven lower-case characters
UserName(u) == <<"a", "a", "a", "a", "a", "a">> \o Digits(u)

InitialUsers ==
  {[id |-> u, isAdmin |-> (u \in Admins),
    username |-> UserName(u), email |-> u,
    authProvider |-> IF u = 3 THEN "google" ELSE "local",
    profilePicture |-> IF u = 1 THEN HostedUrl("profiles/user_1", 1)
                       ELSE IF u = 2 THEN PixabayUrl ELSE GoogleUrl]
     : u \in Users}

\* the query compared without the schema's cast
findOneBySlugExact(store, slug) == {p \in store : p.slug = slug}

\* Post.findOne({ slug }): the filter is cast by the schema, whose slug
\* path has lowercase: true
findOneBySlug(store, slug) == {p \in store : p.slug = toLowerCase(slug)}

findById(store, id) == {d \in store : d.id = id}

\* a collection without the index
slugIndexNeverRejects(store, id, slug) == FALSE

\* the unique index on slug: another document already holds the key
slugIndexRejects(store, id, slug) ==
  \E p \in store : p.id # id /\ p.slug = slug

\* schema setters of the post: title trimmed, slug lower-cased
postSetters(doc) ==
  [doc EXCEPT !.title = trim(doc.title), !.slug = toLowerCase(doc.slug)]

\* schema validators of the post: title required, 3..200 characters
postValidates(doc) ==
  /\ Len(doc.title) >= TitleMinLen
  /\ Len(doc.title) <= TitleMaxLen
  /\ doc.slug # <<>>

(***************************************************************************)
(* Errors and their responses                                              *)
(***************************************************************************)
NoError == [code |-> 0, name |-> ""]
ValidationError == [code |-> 0, name |-> "ValidationError"]
DuplicateKeyError == [code |-> DuplicateKey, name |-> "MongoServerError"]
DocumentNotFoundError == [code |-> 0, name |-> "DocumentNotFoundError"]

\* the Express error middleware (index.js)
errorMiddleware(err) ==
  IF err.code = DuplicateKey
  THEN [status |-> 400, message |-> "Duplicate entry. This data already exists."]
  ELSE IF err.name = "ValidationError"
  THEN [status |-> 400, message |-> "ValidationError"]
  ELSE [status |-> 500, message |-> err.name]

\* the catch block of create
createCatch(err) ==
  IF err.code = DuplicateKey
  THEN [status |-> 400, message |-> "Title or slug already exists"]
  ELSE errorMiddleware(err)

\* the catch block of updatepost
updatepostCatch(err) ==
  IF err.code = DuplicateKey
  THEN [status |-> 400, message |-> "Post title already exists"]
  ELSE errorMiddleware(err)

\* a save that only validates
saveErrorNoIndex(store, doc) ==
  IF ~postValidates(doc) THEN ValidationError ELSE NoError

\* doc.save(): validation, then the write under the unique index
saveError(store, doc) ==
  IF ~postValidates(doc) THEN ValidationError
  ELSE IF slugIndexRejects(store, doc.id, doc.slug) THEN DuplicateKeyError
  ELSE NoError

(***************************************************************************)
(* Request slots                                                           *)
(***************************************************************************)
Idle ==
  [op |-> "idle", pc |-> "idle", caller |-> 0, admin |-> FALSE,
   userId |-> 0, postId |-> 0, title |-> <<>>, image |-> NoImage,
   baseSlug |-> <<>>, slug |-> <<>>, i |-> 0, doc |-> NoDoc,
   username |-> <<>>, email |-> 0,
   sanitizedEmail |-> <<>>, ngoId |-> 0, application |-> NoDoc,
   alreadyExists |-> FALSE,
   commentId |-> 0, content |-> <<>>, atomic |-> "",
   ip |-> "", userAgent |-> "", totalVisits |-> 0, uniqueVisitors |-> 0,
   picture |-> NoImage, userPosts |-> <<>>,
   url |-> NoImage, retries |-> 0, ret |-> "", result |-> "",
   requests |-> <<>>,
   status |-> 0, message |-> "", error |-> NoError,
   deletedPosts |-> 0, deletedComments |-> 0]

\* the handler has answered: next(errorHandler(status, message)) or res.status;
\* its locals are dead; the caller, the parameters, the error, the counts,
\* the last asset outcome and the public ids handed to the asset service
\* stay for the answer
respond(slot, status, message) ==
  [Idle EXCEPT !.op = slot.op, !.pc = "done", !.status = status,
               !.message = message, !.error = slot.error,
               !.caller = slot.caller,
               !.userId = slot.userId, !.postId = slot.postId,
               !.result = slot.result, !.requests = slot.requests,
               !.application = slot.application,
               !.alreadyExists = slot.alreadyExists,
               !.commentId = slot.commentId,
               !.ip = slot.ip, !.userAgent = slot.userAgent,
               !.totalVisits = slot.totalVisits,
               !.uniqueVisitors = slot.uniqueVisitors,
               !.deletedPosts = slot.deletedPosts,
               !.deletedComments = slot.deletedComments]

\* a request is taken by the first free slot, while the behaviour may
\* still receive one; requests and bare generateSlug calls are not mixed
accepts(r) ==
  /\ req[r].pc = "idle"
  /\ returned = <<>>
  /\ \A q \in 1..(r - 1) : req[q].pc # "idle"
  /\ started < MaxOps

\* the collections and the database module the post and user handlers
\* leave alone: no application, no visitor, the module just loaded
InitOther ==
  /\ applications = {}
  /\ visitors = {}
  /\ isConnecting = FALSE
  /\ readyState = 0
  /\ attempts = 0
  /\ timers = 0
  /\ listeners = 0
  /\ reachable = TRUE

Init ==
  /\ posts = {}
  /\ comments = {}
  /\ users = InitialUsers
  /\ cloud = {"profiles/user_1", "blog/img_1", "blog/img_2"}
  /\ req = [r \in Reqs |-> Idle]
  /\ now = 0
  /\ nextPostId = 1
  /\ returned = <<>>
  /\ started = 0
  /\ InitOther

\* Date.now(): a clock that never runs backwards
ClockReads == now..MaxNow

\* the response has been sent; the slot takes the next request
Respond(r) ==
  /\ req[r].pc = "done"
  /\ req' = [req EXCEPT ![r] = Idle]
  /\ UNCHANGED <<posts, comments, users, cloud, now, nextPostId, returned, started,
                 applications, visitors, dbVars>>

(***************************************************************************)
(* generateSlug (slug.js 28-59)                                            *)
(***************************************************************************)
\* lines 30-50: the base candidate, slug = baseSlug, i = 1
enterGenerateSlug(slot, title, t) ==
  [slot EXCEPT !.baseSlug = baseSlugOf(title, t),
               !.slug = baseSlugOf(title, t),
               !.i = 1,
               !.pc = "slugLoop"]

\* where the caller of generateSlug continues
afterGenerateSlug(op) == IF op = "generateSlug" THEN "return" ELSE "save"

\* lines 53-58: one evaluation of the loop condition
GenerateSlugCheck(r) ==
  /\ req[r].pc = "slugLoop"
  /\ IF findOneBySlug(posts, req[r].slug) # {}
     THEN req' = [req EXCEPT ![r].slug = suffixed(req[r].baseSlug, req[r].i),
                             ![r].i = req[r].i + 1]
     ELSE req' = [req EXCEPT ![r].pc = afterGenerateSlug(req[r].op)]
  /\ UNCHANGED <<posts, comments, users, cloud, now, nextPostId, returned, started,
                 applications, visitors, dbVars>>

\* a bare call generateSlug(title, Post)
GenerateSlugCall(r) ==
  /\ req[r].pc = "idle"
  /\ started = 0
  /\ Len(returned) < MaxCalls
  /\ \E title \in SeqsUpTo(Alphabet, MaxLen), t \in ClockReads :
       /\ req' = [req EXCEPT ![r] =
                    enterGenerateSlug([Idle EXCEPT !.op = "generateSlug",
                                                   !.title = title], title, t)]
       /\ now' = IF readsClock(title) THEN t ELSE now
  /\ UNCHANGED <<posts, comments, users, cloud, nextPostId, returned, started,
                 applications, visitors, dbVars>>

\* the caller persists a post carrying the returned slug
GenerateSlugPersist(r) ==
  /\ req[r].pc = "return"
  /\ req[r].op = "generateSlug"
  /\ LET doc == postSetters([id |-> nextPostId, userId |-> 1,
                             title |-> req[r].title, slug |-> req[r].slug,
                             image |-> NoImage])
     IN  /\ ~slugIndexRejects(posts, doc.id, doc.slug)
         /\ posts' = posts \cup {doc}
  /\ nextPostId' = nextPostId + 1
  /\ returned' = Append(returned, req[r].slug)
  /\ req' = [req EXCEPT ![r] = Idle]
  /\ UNCHANGED <<comments, users, cloud, now, started,
                 applications, visitors, dbVars>>

(***************************************************************************)
(* deleteFromCloudinary (config/cloudinary.js)                             *)
(***************************************************************************)
Null == "null"

includesCloudinary(url) == url.host = "res.cloudinary.com"

\* the path after "upload/", without the version segment and the extension
extractPublicId(url) ==
  IF url = NoImage \/ ~includesCloudinary(url) THEN Null
  ELSE IF ~url.upload THEN Null
  ELSE url.id

\* the part of deleteFromCloudinary before the first destroy call
enterDelete(slot, url, ret) ==
  IF url = NoImage \/ ~includesCloudinary(url)
  THEN [slot EXCEPT !.result = "skipped", !.pc = ret]
  ELSE IF extractPublicId(url) = Null
  THEN [slot EXCEPT !.result = "error", !.pc = ret]
  ELSE [slot EXCEPT !.url = url, !.retries = CloudinaryRetries, !.ret = ret,
                    !.requests = Append(slot.requests, extractPublicId(url)),
                    !.pc = "destroy"]

\* a loop that ends after the first post
deleteUserLoopFirstOnly(slot) ==
  IF slot.userPosts = <<>> THEN [slot EXCEPT !.pc = "deletePosts"]
  ELSE LET post == Head(slot.userPosts)
           rest == [slot EXCEPT !.userPosts = <<>>]
       IN  IF post.image # NoImage /\ includesCloudinary(post.image)
           THEN enterDelete(rest, post.image, "userPostLoop")
           ELSE [rest EXCEPT !.pc = "deletePosts"]

\* for (const post of userPosts): the next hosted image, or the end of the loop
RECURSIVE deleteUserLoop(_)
deleteUserLoop(slot) ==
  IF slot.userPosts = <<>> THEN [slot EXCEPT !.pc = "deletePosts"]
  ELSE LET post == Head(slot.userPosts)
           rest == [slot EXCEPT !.userPosts = Tail(slot.userPosts)]
       IN  IF post.image # NoImage /\ includesCloudinary(post.image)
           THEN LET entered == enterDelete(rest, post.image, "userPostLoop")
                IN  IF entered.pc = "destroy" THEN entered ELSE deleteUserLoop(entered)
           ELSE deleteUserLoop(rest)

\* the caller of deleteFromCloudinary runs on to its next await
continueAfterDelete(slot) ==
  CASE slot.pc = "updated" -> respond(slot, 200, "updatedPost")
    [] slot.pc = "userPostLoop" -> deleteUserLoop(slot)
    [] OTHER -> slot

UpstreamError == [code |-> 0, name |-> "Error"]

\* the last error escapes to the handler's catch block
exhaustedRethrows(slot) ==
  respond([slot EXCEPT !.retries = 0, !.result = "error", !.error = UpstreamError],
          errorMiddleware(UpstreamError).status, errorMiddleware(UpstreamError).message)

\* lines 229-234: throw lastError is caught inside deleteFromCloudinary,
\* which returns { result: 'error' }
exhausted(slot) ==
  continueAfterDelete([slot EXCEPT !.retries = 0, !.result = "error", !.pc = slot.ret])

\* a loop that gives up one attempt too late
retryOnceMore(slot) ==
  IF slot.retries - 1 >= 0
  THEN [slot EXCEPT !.retries = slot.retries - 1]
  ELSE exhausted(slot)

\* lines 219-226: retries--, then the next attempt or the end of the loop
retry(slot) ==
  IF slot.retries - 1 > 0
  THEN [slot EXCEPT !.retries = slot.retries - 1]
  ELSE exhausted(slot)

\* every attempt of the asset service may fail
DestroyOutcomes == {"answer", "throw"}

\* lines 202-229: one cloudinary.uploader.destroy attempt
CloudinaryDestroy(r) ==
  /\ req[r].pc = "destroy"
  /\ \E outcome \in DestroyOutcomes :
       LET slot == req[r]
           publicId == extractPublicId(slot.url)
       IN  IF outcome = "answer"
           THEN /\ cloud' = cloud \ {publicId}
                /\ req' = [req EXCEPT ![r] = continueAfterDelete(
                             [slot EXCEPT !.result = IF publicId \in cloud
                                                     THEN "ok" ELSE "not found",
                                          !.pc = slot.ret])]
           ELSE /\ cloud' = cloud
                /\ req' = [req EXCEPT ![r] = retry(slot)]
  /\ UNCHANGED <<posts, comments, users, now, nextPostId, returned, started,
                 applications, visitors, dbVars>>

(***************************************************************************)
(* create (post.controller.js 219-262)                                     *)
(***************************************************************************)
\* the titles, images and callers of the post requests
PostTitles ==
  { <<"A", " ", "A">>,       \* "Hello World"
    <<"a", " ", "a">>,       \* the same words in lower case
    <<"/", "/", "/">>,       \* nothing slugify or the fallback keeps
    <<"a", " ", " ">> }      \* long enough for the handler, too short once trimmed
NoTitle == <<>>
HelloWorld == <<"A", " ", "A">>
CreateImages == {NoImage, HostedUrl("blog/img_1", 1)}
UpdateImages == {NoImage, HostedUrl("blog/img_2", 1)}
PostCallers == {1, 3}

inFlight(op) == Cardinality({r \in Reqs : req[r].op = op /\ req[r].pc # "done"})

\* lines 221-241: the checks, then generateSlug up to its first query
Create(r) ==
  /\ accepts(r)
  /\ nextPostId + inFlight("create") <= MaxPosts
  /\ \E caller \in PostCallers, title \in PostTitles \cup {NoTitle},
        image \in CreateImages, t \in ClockReads :
       LET slot == [Idle EXCEPT !.op = "create", !.caller = caller,
                                !.admin = (caller \in Admins),
                                !.title = title, !.image = image]
       IN  IF ~slot.admin
           THEN /\ req' = [req EXCEPT ![r] =
                            respond(slot, 403, "You are not allowed to create a post")]
                /\ now' = now
           ELSE IF title = NoTitle
           THEN /\ req' = [req EXCEPT ![r] =
                            respond(slot, 400, "Please provide all required fields")]
                /\ now' = now
           ELSE IF Len(title) < TitleMinLen \/ Len(title) > TitleMaxLen
           THEN /\ req' = [req EXCEPT ![r] =
                            respond(slot, 400, "Title must be between 3 and 200 characters")]
                /\ now' = now
           ELSE /\ req' = [req EXCEPT ![r] = enterGenerateSlug(slot, title, t)]
                /\ now' = IF readsClock(title) THEN t ELSE now
  /\ started' = started + 1
  /\ UNCHANGED <<posts, comments, users, cloud, nextPostId, returned,
                 applications, visitors, dbVars>>

\* lines 243-261: new Post({...}).save() and the answer
CreateSave(r) ==
  /\ req[r].pc = "save"
  /\ req[r].op = "create"
  /\ LET slot == req[r]
         doc == postSetters([id |-> nextPostId, userId |-> slot.caller,
                             title |-> slot.title, slug |-> slot.slug,
                             image |-> slot.image])
         err == saveError(posts, doc)
     IN  IF err = NoError
         THEN /\ posts' = posts \cup {doc}
              /\ nextPostId' = nextPostId + 1
              /\ req' = [req EXCEPT ![r] =
                           respond([slot EXCEPT !.doc = doc], 201, "savedPost")]
         ELSE /\ UNCHANGED <<posts, nextPostId>>
              /\ req' = [req EXCEPT ![r] =
                           respond([slot EXCEPT !.error = err],
                                   createCatch(err).status, createCatch(err).message)]
  /\ UNCHANGED <<comments, users, cloud, now, returned, started,
                 applications, visitors, dbVars>>

(***************************************************************************)
(* updatepost (post.controller.js 360-415)                                 *)
(***************************************************************************)
PostIds == 1..MaxPosts

\* lines 362-366: the first authorization check, then Post.findById is issued
UpdatePost(r) ==
  /\ accepts(r)
  /\ \E caller \in PostCallers, userId \in PostCallers, postId \in PostIds,
        title \in PostTitles \cup {NoTitle}, image \in UpdateImages :
       LET slot == [Idle EXCEPT !.op = "updatepost",
                                !.admin = (caller \in Admins),
                                !.userId = userId, !.postId = postId,
                                !.title = title, !.image = image]
       IN  req' = [req EXCEPT ![r] =
                     IF ~slot.admin /\ caller # userId
                     THEN respond(slot, 403, "You are not allowed to update this post")
                     ELSE [slot EXCEPT !.pc = "find"]]
  /\ started' = started + 1
  /\ UNCHANGED <<posts, comments, users, cloud, now, nextPostId, returned,
                 applications, visitors, dbVars>>

\* lines 366-394: the post is loaded and checked; generateSlug runs up to
\* its first query when the request carries a title
UpdatePostFind(r) ==
  /\ req[r].pc = "find"
  /\ req[r].op = "updatepost"
  /\ \E t \in ClockReads :
       LET slot == req[r]
           found == findById(posts, slot.postId)
           post == CHOOSE d \in found : TRUE
           loaded == [slot EXCEPT !.doc = post]
       IN  IF found = {}
           THEN /\ req' = [req EXCEPT ![r] = respond(slot, 404, "Post not found")]
                /\ now' = now
           ELSE IF post.userId # slot.userId /\ ~slot.admin
           THEN /\ req' = [req EXCEPT ![r] =
                            respond(slot, 403, "You are not allowed to update this post")]
                /\ now' = now
           ELSE IF slot.title # NoTitle
                   /\ (Len(slot.title) < TitleMinLen \/ Len(slot.title) > TitleMaxLen)
           THEN /\ req' = [req EXCEPT ![r] = respond(slot, 400, "Invalid title length")]
                /\ now' = now
           ELSE IF slot.title # NoTitle
           THEN /\ req' = [req EXCEPT ![r] = enterGenerateSlug(loaded, slot.title, t)]
                /\ now' = IF readsClock(slot.title) THEN t ELSE now
           ELSE /\ req' = [req EXCEPT ![r] = [loaded EXCEPT !.pc = "save"]]
                /\ now' = now
  /\ UNCHANGED <<posts, comments, users, cloud, nextPostId, returned, started,
                 applications, visitors, dbVars>>

\* lines 390-398: the fields the handler assigns to the loaded document
updatedDoc(slot) ==
  postSetters(
    [slot.doc EXCEPT
       !.title = IF slot.title # NoTitle THEN slot.title ELSE slot.doc.title,
       !.slug = IF slot.title # NoTitle THEN slot.slug ELSE slot.doc.slug,
       !.image = IF slot.image # NoImage THEN slot.image ELSE slot.doc.image])

\* post.save() of a loaded document writes the paths that were modified
writeModified(stored, loaded, doc) ==
  [stored EXCEPT
     !.title = IF doc.title # loaded.title THEN doc.title ELSE stored.title,
     !.slug = IF doc.slug # loaded.slug THEN doc.slug ELSE stored.slug,
     !.image = IF doc.image # loaded.image THEN doc.image ELSE stored.image]

\* the old image is deleted whether or not the save went through
afterSaveDeletesAnyway(slot, err) ==
  LET oldImage == slot.doc.image
      failed == [slot EXCEPT !.error = err]
  IN  IF slot.image # NoImage /\ oldImage # NoImage /\ oldImage # slot.image
      THEN continueAfterDelete(enterDelete(failed, oldImage, "updated"))
      ELSE IF err = NoError THEN respond(slot, 200, "updatedPost")
      ELSE respond(failed, updatepostCatch(err).status, updatepostCatch(err).message)

\* lines 403-414: after a successful save the old image is deleted when the
\* request replaced it, and the post is returned; a failed save goes to the
\* catch block
afterSave(slot, err) ==
  LET oldImage == slot.doc.image
  IN  IF err = NoError
      THEN IF slot.image # NoImage /\ oldImage # NoImage /\ oldImage # slot.image
           THEN continueAfterDelete(enterDelete(slot, oldImage, "updated"))
           ELSE respond(slot, 200, "updatedPost")
      ELSE respond([slot EXCEPT !.error = err],
                   updatepostCatch(err).status, updatepostCatch(err).message)

\* lines 401-414: the save, the deletion of the old image, the answer
UpdatePostSave(r) ==
  /\ req[r].pc = "save"
  /\ req[r].op = "updatepost"
  /\ LET slot == req[r]
         doc == updatedDoc(slot)
         found == findById(posts, slot.postId)
         stored == CHOOSE d \in found : TRUE
         written == writeModified(stored, slot.doc, doc)
         err == IF ~postValidates(doc) THEN ValidationError
                ELSE IF doc = slot.doc THEN NoError
                ELSE IF found = {} THEN DocumentNotFoundError
                ELSE saveError(posts, written)
     IN  /\ posts' = IF err # NoError \/ doc = slot.doc THEN posts
                     ELSE (posts \ found) \cup {written}
         /\ req' = [req EXCEPT ![r] = afterSave(slot, err)]
  /\ UNCHANGED <<comments, users, cloud, now, nextPostId, returned, started,
                 applications, visitors, dbVars>>

(***************************************************************************)
(* deletepost (post.controller.js 322-354)                                 *)
(***************************************************************************)
\* the filter { postId } of Comment.deleteMany
commentsOn(store, postId) == {c \in store : c.postId = postId}

\* the filter { userId } of Comment.deleteMany
commentsBy(store, userId) == {c \in store : c.userId = userId}

\* a filter that matches every post
ownedByAnyone(store, userId) == store

\* the filter { userId } of Post.find and Post.deleteMany
ownedBy(store, userId) == {p \in store : p.userId = userId}

\* lines 326-330: the first authorization check, then Post.findById is issued
DeletePost(r) ==
  /\ accepts(r)
  /\ \E caller \in Users, userId \in Users, postId \in PostIds :
       LET slot == [Idle EXCEPT !.op = "deletepost", !.caller = caller,
                                !.admin = (caller \in Admins),
                                !.userId = userId, !.postId = postId]
       IN  req' = [req EXCEPT ![r] =
                     IF ~slot.admin /\ caller # userId
                     THEN respond(slot, 403, "You are not allowed to delete this post")
                     ELSE [slot EXCEPT !.pc = "find"]]
  /\ started' = started + 1
  /\ UNCHANGED <<posts, comments, users, cloud, now, nextPostId, returned,
                 applications, visitors, dbVars>>

\* the handler without the check of the post's owner
deletepostNoOwnerCheck(slot, found) ==
  IF found = {} THEN respond(slot, 404, "Post not found")
  ELSE [slot EXCEPT !.doc = CHOOSE d \in found : TRUE, !.pc = "deleteComments"]

\* a missing post answered as a deletion that went through
deletepostMissingDeleted(slot, found) ==
  IF found = {} THEN respond(slot, 200, "The post has been deleted")
  ELSE LET post == CHOOSE d \in found : TRUE
       IN  IF post.userId # slot.userId /\ ~slot.admin
           THEN respond(slot, 403, "You are not allowed to delete this post")
           ELSE [slot EXCEPT !.doc = post, !.pc = "deleteComments"]

\* lines 331-338: the post is not found, or is not the caller's, or is loaded
deletepostLoaded(slot, found) ==
  IF found = {} THEN respond(slot, 404, "Post not found")
  ELSE LET post == CHOOSE d \in found : TRUE
       IN  IF post.userId # slot.userId /\ ~slot.admin
           THEN respond(slot, 403, "You are not allowed to delete this post")
           ELSE [slot EXCEPT !.doc = post, !.pc = "deleteComments"]

\* lines 330-341: the post is loaded and checked, Comment.deleteMany is issued
DeletePostFind(r) ==
  /\ req[r].pc = "find"
  /\ req[r].op = "deletepost"
  /\ req' = [req EXCEPT ![r] = deletepostLoaded(req[r], findById(posts, req[r].postId))]
  /\ UNCHANGED <<posts, comments, users, cloud, now, nextPostId, returned, started,
                 applications, visitors, dbVars>>

\* lines 341-346: the comments of the post are deleted, then
\* deleteFromCloudinary runs up to its first destroy call
DeletePostComments(r) ==
  /\ req[r].pc = "deleteComments"
  /\ req[r].op = "deletepost"
  /\ comments' = comments \ commentsOn(comments, req[r].postId)
  /\ req' = [req EXCEPT ![r] =
               IF req[r].doc.image # NoImage
               THEN enterDelete(req[r], req[r].doc.image, "deleteOne")
               ELSE [req[r] EXCEPT !.pc = "deleteOne"]]
  /\ UNCHANGED <<posts, users, cloud, now, nextPostId, returned, started,
                 applications, visitors, dbVars>>

\* lines 348-350: post.deleteOne() and the answer
DeletePostOne(r) ==
  /\ req[r].pc = "deleteOne"
  /\ req[r].op = "deletepost"
  /\ posts' = posts \ findById(posts, req[r].doc.id)
  /\ req' = [req EXCEPT ![r] = respond(req[r], 200, "The post has been deleted")]
  /\ UNCHANGED <<comments, users, cloud, now, nextPostId, returned, started,
                 applications, visitors, dbVars>>

(***************************************************************************)
(* deleteUser (visitor.controller.js 145-201)                              *)
(***************************************************************************)
\* the documents of a query result, in _id order
RECURSIVE inIdOrder(_)
inIdOrder(docs) ==
  IF docs = {} THEN <<>>
  ELSE LET first == CHOOSE d \in docs : \A e \in docs : d.id <= e.id
       IN  <<first>> \o inIdOrder(docs \ {first})

\* lines 146-151: the authorization check, then User.findById is issued
DeleteUser(r) ==
  /\ accepts(r)
  /\ \E caller \in Users, userId \in Users :
       LET slot == [Idle EXCEPT !.op = "deleteUser", !.caller = caller,
                                !.admin = (caller \in Admins), !.userId = userId]
       IN  req' = [req EXCEPT ![r] =
                     IF ~slot.admin /\ caller # userId
                     THEN respond(slot, 403, "You are not allowed to delete this user")
                     ELSE [slot EXCEPT !.pc = "findUser"]]
  /\ started' = started + 1
  /\ UNCHANGED <<posts, comments, users, cloud, now, nextPostId, returned,
                 applications, visitors, dbVars>>

\* lines 151-160: the user is loaded, Post.find is issued
DeleteUserFind(r) ==
  /\ req[r].pc = "findUser"
  /\ LET slot == req[r]
         found == findById(users, slot.userId)
         user == CHOOSE d \in found : TRUE
     IN  req' = [req EXCEPT ![r] =
                   IF found = {} THEN respond(slot, 404, "User not found")
                   ELSE [slot EXCEPT !.picture = user.profilePicture,
                                     !.pc = "findPosts"]]
  /\ UNCHANGED <<posts, comments, users, cloud, now, nextPostId, returned, started,
                 applications, visitors, dbVars>>

\* lines 160-167: the posts of the user are listed; the loop over their
\* images runs up to its first destroy call
DeleteUserFindPosts(r) ==
  /\ req[r].pc = "findPosts"
  /\ req' = [req EXCEPT ![r] =
               deleteUserLoop([req[r] EXCEPT
                 !.userPosts = inIdOrder(ownedBy(posts, req[r].userId))])]
  /\ UNCHANGED <<posts, comments, users, cloud, now, nextPostId, returned, started,
                 applications, visitors, dbVars>>

\* line 170: Post.deleteMany({ userId })
DeleteUserPosts(r) ==
  /\ req[r].pc = "deletePosts"
  /\ posts' = posts \ ownedBy(posts, req[r].userId)
  /\ req' = [req EXCEPT ![r].deletedPosts = Cardinality(ownedBy(posts, req[r].userId)),
                        ![r].pc = "deleteComments"]
  /\ UNCHANGED <<comments, users, cloud, now, nextPostId, returned, started,
                 applications, visitors, dbVars>>

\* every picture taken for the user's own asset
anyPicture(picture) == picture # NoImage

\* lines 178-183: the picture is neither a Google avatar nor the default
\* picture, and is hosted on the asset service
ownPicture(picture) ==
  /\ picture # NoImage
  /\ picture.host # "lh3.googleusercontent.com"
  /\ picture.host # "cdn.pixabay.com"
  /\ includesCloudinary(picture)

\* lines 174-186: Comment.deleteMany({ userId }), then the profile picture
DeleteUserComments(r) ==
  /\ req[r].pc = "deleteComments"
  /\ req[r].op = "deleteUser"
  /\ comments' = comments \ commentsBy(comments, req[r].userId)
  /\ LET slot == [req[r] EXCEPT
                    !.deletedComments = Cardinality(commentsBy(comments, req[r].userId))]
         picture == slot.picture
     IN  req' = [req EXCEPT ![r] =
                   IF ownPicture(picture)
                   THEN enterDelete(slot, picture, "deleteUser")
                   ELSE [slot EXCEPT !.pc = "deleteUser"]]
  /\ UNCHANGED <<posts, users, cloud, now, nextPostId, returned, started,
                 applications, visitors, dbVars>>

\* lines 189-196: User.findByIdAndDelete and the answer
DeleteUserRecord(r) ==
  /\ req[r].pc = "deleteUser"
  /\ users' = users \ findById(users, req[r].userId)
  /\ req' = [req EXCEPT ![r] = respond(req[r], 200, "User has been deleted")]
  /\ UNCHANGED <<posts, comments, cloud, now, nextPostId, returned, started,
                 applications, visitors, dbVars>>

\* the store the delete requests start from: posts of two owners, written
\* by earlier create requests, and comments on them
ExternalUrl ==
  [host |-> "example.com", upload |-> FALSE, version |-> 0, id |-> "photo", ext |-> "jpg"]

SeedPosts ==
  { [id |-> 1, userId |-> 1, title |-> HelloWorld, slug |-> <<"a", "-", "a">>,
     image |-> HostedUrl("blog/img_1", 1)],
    [id |-> 2, userId |-> 2, title |-> HelloWorld, slug |-> <<"a", "-", "a", "-", "1">>,
     image |-> ExternalUrl],
    [id |-> 3, userId |-> 1, title |-> HelloWorld, slug |-> <<"a", "-", "a", "-", "2">>,
     image |-> HostedUrl("blog/img_2", 1)] }

SeedComments ==
  { [id |-> 1, postId |-> 1, userId |-> 3],
    [id |-> 2, postId |-> 1, userId |-> 1],
    [id |-> 3, postId |-> 2, userId |-> 1] }

InitDel ==
  /\ posts = SeedPosts
  /\ comments = SeedComments
  /\ users = InitialUsers
  /\ cloud = {"profiles/user_1", "blog/img_1", "blog/img_2"}
  /\ req = [r \in Reqs |-> Idle]
  /\ now = 0
  /\ nextPostId = Cardinality(SeedPosts) + 1
  /\ returned = <<>>
  /\ started = 0
  /\ InitOther

NextDel ==
  \E r \in Reqs :
    \/ DeletePost(r)
    \/ DeletePostFind(r)
    \/ DeletePostComments(r)
    \/ DeletePostOne(r)
    \/ DeleteUser(r)
    \/ DeleteUserFind(r)
    \/ DeleteUserFindPosts(r)
    \/ DeleteUserPosts(r)
    \/ DeleteUserComments(r)
    \/ DeleteUserRecord(r)
    \/ CloudinaryDestroy(r)
    \/ Respond(r)

SpecDel == InitDel /\ [][NextDel]_vars

(***************************************************************************)
(* updateUser (visitor.controller.js 49-139)                               *)
(***************************************************************************)
\* the usernames and pictures of the update requests; the requests carry no
\* password and no email
NoName == <<>>
UpdateNames ==
  { UserName(2),                                  \* the username of user 2
    UserName(9),                                  \* a username nobody has
    <<"a", "1">>,                                 \* too short
    <<"A", "a", "a", "a", "a", "a", "a">> }       \* not lower-case
UpdatePictures ==
  { HostedUrl("profiles/user_1", 1), HostedUrl("profiles/user_1", 2),
    HostedUrl("blog/img_2", 1) }
\* the users who send update and upload requests: one with a hosted picture,
\* one with the default picture
UserCallers == {1, 2}

\* lines 77-96: the message of the first check the username fails, or ""
usernameRejected(name) ==
  IF Len(name) < 7 \/ Len(name) > 20
  THEN "Username must be between 7 and 20 characters"
  ELSE IF \E k \in 1..Len(name) : name[k] = " "
  THEN "Username cannot contain spaces"
  ELSE IF name # toLowerCase(name)
  THEN "Username must be lowercase"
  ELSE IF \E k \in 1..Len(name) : name[k] \notin {"a"} \cup {"0", "1", "2", "3", "4", "5", "6", "7", "8", "9"}
  THEN "Username can only contain lowercase letters and numbers"
  ELSE ""

\* lines 50-55: the check of the caller, then User.findById is issued
UpdateUser(r) ==
  /\ accepts(r)
  /\ \E caller \in UserCallers, userId \in UserCallers,
        name \in UpdateNames \cup {NoName}, picture \in UpdatePictures \cup {NoImage} :
       LET slot == [Idle EXCEPT !.op = "updateUser", !.caller = caller,
                                !.userId = userId, !.username = name,
                                !.image = picture]
       IN  req' = [req EXCEPT ![r] =
                     IF caller # userId
                     THEN respond(slot, 403, "You are not allowed to update this user")
                     ELSE [slot EXCEPT !.pc = "findCurrent"]]
  /\ started' = started + 1
  /\ UNCHANGED <<posts, comments, users, cloud, now, nextPostId, returned,
                 applications, visitors, dbVars>>

\* lines 55-121: the user is loaded, the username is checked, and the old
\* hosted picture goes to deleteFromCloudinary when the request carries
\* another picture
UpdateUserFind(r) ==
  /\ req[r].pc = "findCurrent"
  /\ LET slot == req[r]
         found == findById(users, slot.userId)
         currentUser == CHOOSE d \in found : TRUE
     IN  req' = [req EXCEPT ![r] =
                   IF found = {} THEN respond(slot, 404, "User not found")
                   ELSE IF slot.username # NoName /\ usernameRejected(slot.username) # ""
                   THEN respond(slot, 400, usernameRejected(slot.username))
                   ELSE IF /\ slot.image # NoImage
                           /\ currentUser.profilePicture # NoImage
                           /\ includesCloudinary(currentUser.profilePicture)
                           /\ slot.image # currentUser.profilePicture
                   THEN enterDelete(slot, currentUser.profilePicture, "update")
                   ELSE [slot EXCEPT !.pc = "update"]]
  /\ UNCHANGED <<posts, comments, users, cloud, now, nextPostId, returned, started,
                 applications, visitors, dbVars>>

TypeError == [code |-> 0, name |-> "TypeError"]

\* the catch block of updateUser
updateUserCatch(err) ==
  IF err.code = DuplicateKey
  THEN [status |-> 400, message |-> "This username is already taken"]
  ELSE errorMiddleware(err)

\* lines 123-138: User.findByIdAndUpdate with { $set: updates } and the answer
UpdateUserUpdate(r) ==
  /\ req[r].pc = "update"
  /\ LET slot == req[r]
         found == findById(users, slot.userId)
         stored == CHOOSE d \in found : TRUE
         updatedUser ==
           [stored EXCEPT
              !.username = IF slot.username # NoName THEN slot.username ELSE @,
              !.profilePicture = IF slot.image # NoImage THEN slot.image ELSE @]
         err == IF found = {} THEN TypeError
                ELSE IF \E u \in users : u.id # stored.id /\ u.username = updatedUser.username
                THEN DuplicateKeyError
                ELSE NoError
     IN  IF err = NoError
         THEN /\ users' = (users \ found) \cup {updatedUser}
              /\ req' = [req EXCEPT ![r] = respond(slot, 200, "updatedUser")]
         ELSE /\ users' = users
              /\ req' = [req EXCEPT ![r] =
                           respond([slot EXCEPT !.error = err],
                                   updateUserCatch(err).status,
                                   updateUserCatch(err).message)]
  /\ UNCHANGED <<posts, comments, cloud, now, nextPostId, returned, started,
                 applications, visitors, dbVars>>

(***************************************************************************)
(* POST /upload/profile-picture (user.route.js 31-65)                      *)
(***************************************************************************)
\* the key of the picture a user uploads: folder profile-pictures, public_id
\* the user's id
profilePictureKey(userId) == "profile-pictures/" \o ToString(userId)

\* lines 37-41: the check of the file, then User.findById is issued
UploadProfilePicture(r) ==
  /\ accepts(r)
  /\ \E caller \in UserCallers, file \in BOOLEAN :
       LET slot == [Idle EXCEPT !.op = "upload", !.caller = caller, !.userId = caller]
       IN  req' = [req EXCEPT ![r] =
                     IF ~file THEN respond(slot, 400, "No image file provided")
                     ELSE [slot EXCEPT !.pc = "findUploader"]]
  /\ started' = started + 1
  /\ UNCHANGED <<posts, comments, users, cloud, now, nextPostId, returned,
                 applications, visitors, dbVars>>

\* lines 41-47: the user is loaded, uploadToCloudinary is issued
UploadFind(r) ==
  /\ req[r].pc = "findUploader"
  /\ LET slot == req[r]
         found == findById(users, slot.userId)
     IN  req' = [req EXCEPT ![r] =
                   IF found = {} THEN respond(slot, 404, "User not found")
                   ELSE [slot EXCEPT !.doc = CHOOSE d \in found : TRUE,
                                     !.pc = "upload"]]
  /\ UNCHANGED <<posts, comments, users, cloud, now, nextPostId, returned, started,
                 applications, visitors, dbVars>>

UploadOutcomes == {"stored", "throw"}

\* lines 47-54: the asset service stores the file under the user's key,
\* overwriting, and returns a URL whose version segment is the upload time
UploadStore(r) ==
  /\ req[r].pc = "upload"
  /\ \E outcome \in UploadOutcomes, t \in ClockReads :
       LET slot == req[r]
           key == profilePictureKey(slot.userId)
       IN  IF outcome = "stored"
           THEN /\ cloud' = cloud \cup {key}
                /\ now' = t
                /\ req' = [req EXCEPT ![r] =
                             [slot EXCEPT !.image = HostedUrl(key, t),
                                          !.pc = "saveUser"]]
           ELSE /\ UNCHANGED <<cloud, now>>
                /\ req' = [req EXCEPT ![r] =
                             respond([slot EXCEPT !.error = UpstreamError],
                                     500, "Upload failed")]
  /\ UNCHANGED <<posts, comments, users, nextPostId, returned, started,
                 applications, visitors, dbVars>>

\* lines 53-63: user.profilePicture = result.secure_url, user.save()
UploadSave(r) ==
  /\ req[r].pc = "saveUser"
  /\ req[r].op = "upload"
  /\ LET slot == req[r]
         found == findById(users, slot.userId)
         stored == CHOOSE d \in found : TRUE
     IN  IF slot.image = slot.doc.profilePicture
         THEN /\ users' = users
              /\ req' = [req EXCEPT ![r] =
                           respond(slot, 200, "Profile picture updated successfully")]
         ELSE IF found = {}
         THEN /\ users' = users
              /\ req' = [req EXCEPT ![r] =
                           respond([slot EXCEPT !.error = DocumentNotFoundError],
                                   500, "Upload failed")]
         ELSE /\ users' = (users \ found)
                            \cup {[stored EXCEPT !.profilePicture = slot.image]}
              /\ req' = [req EXCEPT ![r] =
                           respond(slot, 200, "Profile picture updated successfully")]
  /\ UNCHANGED <<posts, comments, cloud, now, nextPostId, returned, started,
                 applications, visitors, dbVars>>

(***************************************************************************)
(* google (auth controller, part_002 118-208)                              *)
(***************************************************************************)
\* the address of an account that is not registered yet, and no address
NewEmail == 4
NoEmail == 0
GooglePhotos == {NoImage, GoogleUrl}

\* lines 119-128: the check of the input, then User.findOne({ email })
Google(r) ==
  /\ accepts(r)
  /\ \E email \in UserCallers \cup {NewEmail, NoEmail}, googlePhotoUrl \in GooglePhotos :
       LET slot == [Idle EXCEPT !.op = "google", !.email = email,
                                !.image = googlePhotoUrl]
       IN  req' = [req EXCEPT ![r] =
                     IF email = NoEmail
                     THEN respond(slot, 400, "Email and name are required")
                     ELSE [slot EXCEPT !.pc = "findOne"]]
  /\ started' = started + 1
  /\ UNCHANGED <<posts, comments, users, cloud, now, nextPostId, returned,
                 applications, visitors, dbVars>>

\* lines 128-182: the account is loaded and takes the Google photo unless it
\* has a hosted picture, or a new account is built; save() is issued
GoogleFind(r) ==
  /\ req[r].pc = "findOne"
  /\ LET slot == req[r]
         found == {u \in users : u.email = slot.email}
         user == CHOOSE d \in found : TRUE
         hasCloudinaryPhoto ==
           user.profilePicture # NoImage /\ includesCloudinary(user.profilePicture)
         newUser == [id |-> slot.email, isAdmin |-> FALSE,
                     username |-> UserName(slot.email), email |-> slot.email,
                     authProvider |-> "google",
                     profilePicture |-> IF slot.image # NoImage THEN slot.image
                                        ELSE PixabayUrl]
     IN  req' = [req EXCEPT ![r] =
                   IF found # {}
                   THEN [slot EXCEPT
                           !.userId = user.id,
                           !.picture = user.profilePicture,
                           !.doc = [user EXCEPT
                                      !.profilePicture =
                                        IF ~hasCloudinaryPhoto /\ slot.image # NoImage
                                        THEN slot.image ELSE @,
                                      !.authProvider = "google"],
                           !.pc = "saveUser"]
                   ELSE [slot EXCEPT !.doc = newUser, !.pc = "saveUser"]]
  /\ UNCHANGED <<posts, comments, users, cloud, now, nextPostId, returned, started,
                 applications, visitors, dbVars>>

\* the catch block of google
googleCatch(err) ==
  IF err.code = DuplicateKey
  THEN [status |-> 400, message |-> "Account creation failed. Please try again."]
  ELSE errorMiddleware(err)

\* lines 150-163 and 184-197: user.save() writes the paths that were
\* modified, newUser.save() inserts under the unique indexes; the answer
GoogleSave(r) ==
  /\ req[r].pc = "saveUser"
  /\ req[r].op = "google"
  /\ LET slot == req[r]
         doc == slot.doc
         found == findById(users, doc.id)
         stored == CHOOSE d \in found : TRUE
         isNew == slot.userId = 0
         written ==
           [stored EXCEPT
              !.profilePicture = IF doc.profilePicture # slot.picture
                                 THEN doc.profilePicture ELSE @,
              !.authProvider = "google"]
         err == IF isNew
                THEN IF \E u \in users : u.email = doc.email \/ u.username = doc.username
                     THEN DuplicateKeyError ELSE NoError
                ELSE IF found = {} /\ doc.profilePicture # slot.picture
                     THEN DocumentNotFoundError ELSE NoError
     IN  IF err = NoError
         THEN /\ users' = IF isNew THEN users \cup {doc}
                          ELSE IF found = {} THEN users
                          ELSE (users \ found) \cup {written}
              /\ req' = [req EXCEPT ![r] = respond(slot, 200, "rest")]
         ELSE /\ users' = users
              /\ req' = [req EXCEPT ![r] =
                           respond([slot EXCEPT !.error = err],
                                   googleCatch(err).status, googleCatch(err).message)]
  /\ UNCHANGED <<posts, comments, cloud, now, nextPostId, returned, started,
                 applications, visitors, dbVars>>

\* update, upload and sign-in requests, interleaved at every await
NextUser ==
  \E r \in Reqs :
    \/ UpdateUser(r)
    \/ UpdateUserFind(r)
    \/ UpdateUserUpdate(r)
    \/ UploadProfilePicture(r)
    \/ UploadFind(r)
    \/ UploadStore(r)
    \/ UploadSave(r)
    \/ Google(r)
    \/ GoogleFind(r)
    \/ GoogleSave(r)
    \/ CloudinaryDestroy(r)
    \/ Respond(r)

SpecUser == Init /\ [][NextUser]_vars

NextPosts ==
  \E r \in Reqs :
    \/ Create(r)
    \/ CreateSave(r)
    \/ UpdatePost(r)
    \/ UpdatePostFind(r)
    \/ UpdatePostSave(r)
    \/ GenerateSlugCheck(r)
    \/ CloudinaryDestroy(r)
    \/ Respond(r)

\* one request at a time: bare generateSlug calls over every short title,
\* and create requests
NextSlug ==
  \/ GenerateSlugCall(1)
  \/ GenerateSlugCheck(1)
  \/ GenerateSlugPersist(1)
  \/ Create(1)
  \/ CreateSave(1)
  \/ Respond(1)

SpecSlug == Init /\ [][NextSlug]_vars

Next == NextPosts

Spec == Init /\ [][Next]_vars

(***************************************************************************)
(* Slug generation                                                         *)
(***************************************************************************)
\* generateSlug has returned in slot r
slugReturned(r) ==
  \/ req[r].op = "generateSlug" /\ req[r].pc = "return"
  \/ req[r].op = "create" /\ req[r].pc = "save"

\* C1: for every non-empty title and every content of the post store,
\* generateSlug returns a non-empty string.
C1_SlugNeverEmpty ==
  \A r \in Reqs : slugReturned(r) /\ req[r].title # <<>> => Len(req[r].slug) > 0

\* a title of blanks only has gone through generateSlug against a store
\* that already holds the time-derived slug
C1_Witness ==
  /\ slugReturned(1)
  /\ req[1].title = <<" ", " ">>
  /\ posts # {}
  /\ req[1].i > 1

\* a stored post has the candidate as slug, as the store compares slugs
taken(store, candidate) == \E p \in store : p.slug = toLowerCase(candidate)

\* the first free candidate among base, base-1, base-2, ...
firstFree(store, base) ==
  IF ~taken(store, base) THEN base
  ELSE LET numbered(k) == base \o <<"-">> \o Digits(k)
           free == {k \in 1..(Cardinality(store) + 1) : ~taken(store, numbered(k))}
           least == CHOOSE k \in free : \A m \in free : k <= m
       IN  numbered(least)

\* C2: generateSlug returns the base candidate when no stored post has it
\* as slug, and otherwise base-k for the smallest k >= 1 such that no stored
\* post has base-k as slug; two posts titled "Hello World" created back to
\* back are both persisted, with slugs hello-world and hello-world-1.
C2_FirstFreeCandidate ==
  /\ \A r \in Reqs :
       slugReturned(r) => req[r].slug = firstFree(posts, req[r].baseSlug)
  /\ \A r \in Reqs :
       ( /\ req[r].op = "create" /\ req[r].pc = "save" /\ req[r].title = HelloWorld
         /\ Cardinality(posts) = 1
         /\ \A p \in posts : p.title = HelloWorld /\ p.slug = <<"a", "-", "a">> )
       => LET doc == postSetters([NoDoc EXCEPT !.id = nextPostId,
                                               !.title = req[r].title,
                                               !.slug = req[r].slug])
          IN  /\ doc.slug = <<"a", "-", "a", "-", "1">>
              /\ saveError(posts, doc) = NoError
  /\ ( /\ started = 2 /\ returned = <<>> /\ nextPostId = 3
       /\ \A p \in posts : p.title = HelloWorld )
       => /\ Cardinality(posts) = 2
          /\ \A p \in posts :
               p.slug = IF p.id = 1 THEN <<"a", "-", "a">>
                        ELSE <<"a", "-", "a", "-", "1">>

\* the second of two creates titled "Hello World" has answered
C2_Witness ==
  /\ started = 2
  /\ req[1].pc = "done"
  /\ req[1].status = 201
  /\ Cardinality(posts) = 2
  /\ \A p \in posts : p.title = HelloWorld

\* C3: when a post carrying the result of one generateSlug call is persisted
\* before another call begins, the later call returns a different slug.
C3_LaterCallDiffers ==
  \A r \in Reqs :
    req[r].op = "generateSlug" /\ req[r].pc = "return"
      => \A k \in 1..Len(returned) : returned[k] # req[r].slug

\* a second call with the title of the first has returned
C3_Witness ==
  /\ req[1].op = "generateSlug"
  /\ req[1].pc = "return"
  /\ Len(returned) = 1
  /\ req[1].title = <<"A">>
  /\ returned[1] = <<"A">>

createCollides(r) ==
  /\ req[r].op = "create"
  /\ req[r].pc = "save"
  /\ Len(trim(req[r].title)) >= TitleMinLen
  /\ \E p \in posts : p.slug = toLowerCase(req[r].slug)

\* C5: a create request whose insert is refused by the uniqueness constraint
\* (it passed the slug pre-check, a concurrent request stored the slug first)
\* answers with the error 400, never 201, stores no post and does not go
\* back into slug generation.
C5_RefusedCreateAnswersConflict ==
  [][\A r \in Reqs :
       createCollides(r) /\ req'[r] # req[r]
         => /\ req'[r].pc = "done"
            /\ req'[r].status = 400
            /\ req'[r].message = "Title or slug already exists"
            /\ posts' = posts]_vars

\* a create request refused with the duplicate-key error has answered
C5_Witness ==
  \E r \in Reqs :
    /\ req[r].op = "create"
    /\ req[r].pc = "done"
    /\ req[r].error.code = DuplicateKey
    /\ req[r].status = 400
    /\ \E p \in posts : p.title = HelloWorld

\* C6 as stated: an updatepost request that does not change the title (no
\* title in the request, or the title the post already has) leaves the slug
\* of the post as it was.
C6_SlugKeptWithoutRename ==
  [][\A r \in Reqs :
       ( /\ req[r].op = "updatepost"
         /\ req[r].pc = "save"
         /\ req'[r] # req[r]
         /\ req[r].title \in {NoTitle, req[r].doc.title} )
       => \A p \in posts : p.id = req[r].postId
            => \E q \in posts' : q.id = p.id /\ q.slug = p.slug]_vars

(***************************************************************************)
(* Cascading deletes                                                       *)
(***************************************************************************)
\* the owner of a post of the seeded store
seedOwner(postId) == (CHOOSE p \in SeedPosts : p.id = postId).userId

\* C7 as stated: after deleteUser has succeeded for a user, the store holds
\* no comment written by that user and no comment on a post that user owned.
C7_NoCommentOfDeletedUser ==
  \A r \in Reqs :
    req[r].op = "deleteUser" /\ req[r].pc = "done" /\ req[r].status = 200
      => \A c \in comments :
           /\ c.userId # req[r].userId
           /\ seedOwner(c.postId) # req[r].userId

\* C8: deleteUser removes posts in one step only, which removes exactly the
\* posts the user owns at that moment and no post of another user, and counts
\* them in deletedPosts; when it answers 200 the count is the one reported
\* and no user record has the id.
C8_DeleteUserRemovesOwnPosts ==
  [][\A r \in Reqs :
       req[r].op = "deleteUser" /\ req[r].pc # "done" /\ req'[r] # req[r]
         => LET own == {p \in posts : p.userId = req[r].userId}
            IN  /\ req[r].pc = "deletePosts"
                     => /\ posts' = posts \ own
                        /\ req'[r].deletedPosts = Cardinality(own)
                /\ req[r].pc # "deletePosts"
                     => /\ posts' = posts
                        /\ req'[r].deletedPosts = req[r].deletedPosts
                /\ req'[r].pc = "done" /\ req'[r].status = 200
                     => \A u \in users' : u.id # req[r].userId]_vars

\* deleteUser has answered for the owner of two posts; the post of the
\* other owner is still stored
C8_Witness ==
  \E r \in Reqs :
    /\ req[r].op = "deleteUser"
    /\ req[r].pc = "done"
    /\ req[r].status = 200
    /\ req[r].userId = 1
    /\ req[r].deletedPosts = 2
    /\ {p.id : p \in posts} = {2}
    /\ \A u \in users : u.id # 1

\* C9 as stated: at every step of deletepost and deleteUser, no post has
\* been removed while comments referencing it are still stored.
C9_NoOrphanedComment ==
  \A c \in comments : \E p \in posts : p.id = c.postId

\* C10: when the third and last attempt to delete an asset fails, the
\* handler goes on (deletepost to post.deleteOne, deleteUser to the next
\* image or the next store operation) without answering; deletepost then
\* removes the post, whose comments are gone, and answers 200, and deleteUser
\* removes the user record and answers 200.
C10_AssetFailureDoesNotBlockDelete ==
  [][\A r \in Reqs :
       /\ ( /\ req[r].pc = "destroy"
            /\ req[r].retries = 1
            /\ req'[r] # req[r]
            /\ req'[r].result = "error" )
          => /\ req'[r].status = 0
             /\ req[r].op = "deletepost" => req'[r].pc = "deleteOne"
             /\ req[r].op = "deleteUser"
                  => req'[r].pc \in {"destroy", "deletePosts", "deleteUser"}
       /\ ( /\ req[r].result = "error"
            /\ req[r].pc \in {"deleteOne", "deleteUser"}
            /\ req'[r] # req[r] )
          => /\ req'[r].pc = "done"
             /\ req'[r].status = 200
             /\ req[r].op = "deletepost"
                  => /\ \A p \in posts' : p.id # req[r].postId
                     /\ \A c \in comments' : c.postId # req[r].postId
             /\ req[r].op = "deleteUser"
                  => \A u \in users' : u.id # req[r].userId]_vars

\* deletepost has answered 200 for the post with a hosted image after three
\* failed attempts to delete the image
C10_Witness ==
  \E r \in Reqs :
    /\ req[r].op = "deletepost"
    /\ req[r].pc = "done"
    /\ req[r].status = 200
    /\ req[r].result = "error"
    /\ req[r].postId = 1
    /\ "blog/img_1" \in cloud
    /\ \A p \in posts : p.id # 1

(***************************************************************************)
(* Authorization and asset outcomes of the delete handlers                 *)
(***************************************************************************)
\* res.status(...).json(...): what the caller of a delete handler receives
response(slot) ==
  [status |-> slot.status, message |-> slot.message,
   deletedPosts |-> slot.deletedPosts, deletedComments |-> slot.deletedComments]

\* a delete handler has answered 200 in slot r
deleted(r) ==
  /\ req[r].op \in {"deletepost", "deleteUser"}
  /\ req[r].pc = "done"
  /\ req[r].status = 200

\* C11 as stated: when an asset deletion fails during deletepost or
\* deleteUser, the answer of the handler records that outcome, so it differs
\* from the answer of a deletion whose one asset was deleted.
C11_AssetFailureReported ==
  \A r \in Reqs, q \in Reqs :
    ( /\ deleted(r) /\ deleted(q) /\ req[r].op = req[q].op
      /\ req[r].result = "error"
      /\ Len(req[q].requests) = 1 /\ req[q].result = "ok" )
    => response(req[r]) # response(req[q])

\* the owners of a post of the seeded store
owners(postId) == {p.userId : p \in {q \in SeedPosts : q.id = postId}}

\* the caller of the delete request is an administrator, or the owner of the
\* post, or the user to delete
entitled(slot) ==
  \/ slot.caller \in Admins
  \/ slot.op = "deletepost" /\ slot.caller \in owners(slot.postId)
  \/ slot.op = "deleteUser" /\ slot.caller = slot.userId

\* a step of the delete request in slot r
deleteStep(r) ==
  /\ req'[r] # req[r]
  /\ req'[r].op \in {"deletepost", "deleteUser"}

\* C12 as stated: every caller of deletepost or deleteUser who is neither an
\* administrator nor the owner is answered 403.
C12_OthersForbidden ==
  \A r \in Reqs :
    req[r].op \in {"deletepost", "deleteUser"} /\ req[r].pc = "done"
      /\ ~entitled(req[r])
    => req[r].status = 403

\* C12: a deletepost or deleteUser request of a caller who is neither an
\* administrator nor the owner removes no post, comment or user and hands
\* nothing to the asset service; it is answered 403, or, by deletepost, 404
\* when no post has the id.
C12_OnlyAdminOrOwnerDeletes ==
  [][\A r \in Reqs :
       deleteStep(r) /\ ~entitled(req'[r])
         => /\ UNCHANGED <<posts, comments, users, cloud>>
            /\ req'[r].requests = <<>>
            /\ req'[r].pc # "destroy"
            /\ req'[r].pc = "done"
                 => \/ req'[r].status = 403
                    \/ /\ req'[r].op = "deletepost"
                       /\ req'[r].status = 404
                       /\ \A p \in posts : p.id # req'[r].postId]_vars

\* user 3, not an administrator, has asked to delete the post of user 1 under
\* the own id and has been refused; the post is still stored
C12_Witness ==
  \E r \in Reqs :
    /\ req[r].op = "deletepost"
    /\ req[r].pc = "done"
    /\ req[r].caller = 3
    /\ req[r].userId = 3
    /\ req[r].postId = 1
    /\ req[r].status = 403
    /\ \E p \in posts : p.id = 1

\* C13: a deletepost request that passed the first check and whose post has
\* already been deleted answers 404; it deletes no comment and no post and
\* hands nothing to the asset service.
C13_SecondDeleteNotFound ==
  [][\A r \in Reqs :
       ( /\ req[r].op = "deletepost"
         /\ req[r].pc = "find"
         /\ req'[r] # req[r]
         /\ \A p \in posts : p.id # req[r].postId )
       => /\ req'[r].pc = "done"
          /\ req'[r].status = 404
          /\ req'[r].requests = <<>>
          /\ UNCHANGED <<posts, comments, users, cloud>>]_vars

\* the second of two deletepost requests for post 1 has been answered 404
C13_Witness ==
  \E r \in Reqs :
    /\ started = 2
    /\ req[r].op = "deletepost"
    /\ req[r].pc = "done"
    /\ req[r].postId = 1
    /\ req[r].status = 404
    /\ \A p \in posts : p.id # 1
    /\ \A c \in comments : c.postId # 1
    /\ "blog/img_1" \notin cloud

(***************************************************************************)
(* deleteFromCloudinary                                                    *)
(***************************************************************************)
\* C14: one deleteFromCloudinary call makes at most 3 destroy attempts: an
\* attempt is followed by another one of the same call only after it failed,
\* with one attempt less to go and nothing deleted; the call ends with the
\* result of an attempt that answered, or with the outcome error after the
\* attempt that had none left to follow.
C14_AtMostThreeAttempts ==
  [][\A r \in Reqs :
       req[r].pc = "destroy" /\ req'[r] # req[r]
         => LET again == /\ req'[r].pc = "destroy"
                         /\ req'[r].requests = req[r].requests
            IN  /\ req[r].retries \in 1..3
                /\ again => /\ req'[r].retries = req[r].retries - 1
                            /\ req'[r].retries >= 1
                            /\ req'[r].url = req[r].url
                            /\ cloud' = cloud
                /\ ~again => \/ req'[r].result \in {"ok", "not found"}
                             \/ /\ req'[r].result = "error"
                                /\ req[r].retries = 1
                                /\ cloud' = cloud]_vars

\* the third attempt of a call has failed: the call has returned the outcome
\* error to deletepost and the asset is still held
C14_Witness ==
  \E r \in Reqs :
    /\ req[r].op = "deletepost"
    /\ req[r].pc = "deleteOne"
    /\ req[r].retries = 0
    /\ req[r].result = "error"
    /\ req[r].requests = <<"blog/img_1">>
    /\ "blog/img_1" \in cloud

\* no error of the asset service has reached a handler
neverRaises ==
  \A r \in Reqs : req[r].error # UpstreamError /\ req[r].status # 500

NotOwnedHosts == {"lh3.googleusercontent.com", "cdn.pixabay.com"}

\* C16: deleteUser for a user whose picture is a Google avatar or the default
\* picture goes from the deletion of the comments to the deletion of the user
\* record without calling deleteFromCloudinary for the picture; no attempt of
\* the asset service is ever for such a picture; the record is then deleted
\* and the answer is 200.
C16_ForeignPictureKept ==
  [][\A r \in Reqs :
       ( /\ req[r].op = "deleteUser"
         /\ req'[r] # req[r]
         /\ req[r].picture.host \in NotOwnedHosts )
       => /\ req[r].pc = "deleteComments"
               => /\ req'[r].pc = "deleteUser"
                  /\ req'[r].requests = req[r].requests
                  /\ req'[r].result = req[r].result
                  /\ cloud' = cloud
          /\ req'[r].pc = "destroy" => req'[r].url # req[r].picture
          /\ req[r].pc = "deleteUser"
               => /\ \A u \in users' : u.id # req[r].userId
                  /\ req'[r].pc = "done"
                  /\ req'[r].status = 200]_vars

\* user 3, who signed in with Google, has been deleted; nothing was handed
\* to the asset service
C16_Witness ==
  \E r \in Reqs :
    /\ req[r].op = "deleteUser"
    /\ req[r].pc = "done"
    /\ req[r].status = 200
    /\ req[r].userId = 3
    /\ req[r].requests = <<>>
    /\ req[r].result = ""
    /\ \A u \in users : u.id # 3
    /\ \E u \in InitialUsers : u.id = 3 /\ u.profilePicture = GoogleUrl

\* the public ids of the hosted images of a list of posts
RECURSIVE hostedIds(_)
hostedIds(list) ==
  IF list = <<>> THEN <<>>
  ELSE LET image == Head(list).image
       IN  (IF image.host = "res.cloudinary.com" THEN <<image.id>> ELSE <<>>)
             \o hostedIds(Tail(list))

\* C18: deleteUser hands to the asset service the hosted image of each post
\* Post.find listed, once and in order, then the hosted profile picture, and
\* nothing else (3 requests for user 1, who has a hosted picture and two posts
\* with hosted images); it removes the user record in one step; its answer
\* carries the number of posts and of comments it deleted.
C18_OneRequestPerAsset ==
  [][\A r \in Reqs :
       req[r].op = "deleteUser" /\ req[r].pc # "done" /\ req'[r] # req[r]
         => LET listed == inIdOrder({p \in posts : p.userId = req[r].userId})
                picture == req[r].picture
                before == req[r].requests \o hostedIds(req[r].userPosts)
                after == req'[r].requests \o hostedIds(req'[r].userPosts)
            IN  /\ req[r].pc = "findPosts" => after = hostedIds(listed)
                /\ req[r].pc \in {"findUser", "destroy", "deletePosts"}
                     => after = before
                /\ req[r].pc = "deletePosts" => req[r].userPosts = <<>>
                /\ req[r].pc = "deleteComments"
                     => /\ after = before \o
                             (IF picture.host = "res.cloudinary.com"
                              THEN <<picture.id>> ELSE <<>>)
                        /\ req'[r].deletedComments =
                             Cardinality({c \in comments : c.userId = req[r].userId})
                /\ req[r].pc = "deleteUser"
                     => /\ users' = {u \in users : u.id # req[r].userId}
                        /\ req'[r].requests = req[r].requests
                        /\ response(req'[r]) =
                             [status |-> 200, message |-> "User has been deleted",
                              deletedPosts |-> req[r].deletedPosts,
                              deletedComments |-> req[r].deletedComments]
                /\ req[r].pc # "deleteUser" => users' = users
                /\ ( /\ started = 1 /\ req[r].userId = 1 /\ req[r].pc = "deleteUser" )
                     => /\ req[r].requests =
                             <<"blog/img_1", "blog/img_2", "profiles/user_1">>
                        /\ req[r].deletedPosts = 2
                        /\ req[r].deletedComments = 2]_vars

\* deleteUser has answered for user 1: three requests to the asset service,
\* two posts and two comments counted, the record gone
C18_Witness ==
  \E r \in Reqs :
    /\ req[r].op = "deleteUser"
    /\ req[r].pc = "done"
    /\ req[r].status = 200
    /\ req[r].userId = 1
    /\ req[r].requests = <<"blog/img_1", "blog/img_2", "profiles/user_1">>
    /\ req[r].deletedPosts = 2
    /\ req[r].deletedComments = 2
    /\ \A u \in users : u.id # 1

(***************************************************************************)
(* The empty title                                                         *)
(***************************************************************************)
DigitChars == {"0", "1", "2", "3", "4", "5", "6", "7", "8", "9"}

\* C19: generateSlug called with the empty title, when no stored post has
\* the slug post-<now>, returns "post-" followed by the decimal digits of the
\* clock value it read and by nothing else.
C19_EmptyTitleGivesPostMillis ==
  \A r \in Reqs :
    ( /\ req[r].op = "generateSlug"
      /\ req[r].pc = "return"
      /\ req[r].title = <<>>
      /\ ~taken(posts, <<"post-">> \o Digits(now)) )
    => /\ req[r].slug = <<"post-">> \o Digits(now)
       /\ Len(req[r].slug) >= 2
       /\ \A k \in 2..Len(req[r].slug) : req[r].slug[k] \in DigitChars

\* a call with the empty title has returned post-1 at clock value 1, after
\* an earlier call stored a post
C19_Witness ==
  /\ req[1].op = "generateSlug"
  /\ req[1].pc = "return"
  /\ req[1].title = <<>>
  /\ now = 1
  /\ req[1].slug = <<"post-", "1">>
  /\ posts # {}

C17_ReplacedAssetDeleted ==
  [][\A r \in Reqs :
       req'[r] # req[r]
         => /\ \A u \in users, v \in users' :
                 ( /\ v.id = u.id
                   /\ v.profilePicture # u.profilePicture
                   /\ u.profilePicture.host = "res.cloudinary.com" )
                 => \E k \in 1..Len(req'[r].requests) :
                      req'[r].requests[k] = u.profilePicture.id
            /\ \A p \in posts, q \in posts' :
                 ( /\ q.id = p.id
                   /\ q.image # p.image
                   /\ p.image.host = "res.cloudinary.com" )
                 => \E k \in 1..Len(req'[r].requests) :
                      req'[r].requests[k] = p.image.id]_vars

(***************************************************************************)
(* The database module (config/db.js, part_001 690-751)                    *)
(* connectDB is called once by startServer and again by every timer that   *)
(* a failed attempt or a 'disconnected' handler sets.  The code between    *)
(* two awaits runs to completion, so a call is one step up to its await of *)
(* mongoose.connect, and the settling of that promise is another step.     *)
(***************************************************************************)
\* states of mongoose.connection.readyState
Disconnected == 0
Connected == 1
Connecting == 2

\* a guard that looks at the connection state only
connectDBIgnoresFlag(flag, state) == state = Connected

\* lines 699-701: connectDB returns at once while an attempt is in progress
\* or the connection is up
connectDBReturnsAtOnce(flag, state) == flag \/ state = Connected

\* lines 697-710: the guard, then the flag is set and mongoose.connect is
\* called, which puts the connection in the connecting state
connectDB ==
  IF connectDBReturnsAtOnce(isConnecting, readyState)
  THEN UNCHANGED <<isConnecting, readyState, attempts>>
  ELSE /\ isConnecting' = TRUE
       /\ readyState' = Connecting
       /\ attempts' = attempts + 1

\* a catch block that sets no timer
retryTimersNone(pending) == pending

\* line 726: setTimeout(connectDB, 5000) in the catch block
retryTimers(pending) == pending + 1

\* index.js 344: startServer awaits the initial call
StartServer ==
  /\ started = 0
  /\ started' = 1
  /\ connectDB
  /\ UNCHANGED <<posts, comments, users, cloud, req, now, nextPostId, returned,
                 applications, visitors, timers, listeners, reachable>>

\* lines 726 and 750: a timer fires and calls connectDB
TimerFires ==
  /\ timers > 0
  /\ timers' = timers - 1
  /\ connectDB
  /\ UNCHANGED <<posts, comments, users, cloud, req, now, nextPostId, returned,
                 started, applications, visitors, listeners, reachable>>

\* lines 707-719: mongoose.connect resolves; the flag is cleared and
\* setupConnectionEvents registers one more 'disconnected' handler
ConnectResolves ==
  /\ attempts > 0
  /\ reachable
  /\ attempts' = attempts - 1
  /\ isConnecting' = FALSE
  /\ readyState' = Connected
  /\ listeners' = listeners + 1
  /\ UNCHANGED <<posts, comments, users, cloud, req, now, nextPostId, returned,
                 started, applications, visitors, timers, reachable>>

\* lines 721-727: mongoose.connect rejects (server selection times out);
\* the flag is cleared and a retry is scheduled
ConnectRejects ==
  /\ attempts > 0
  /\ ~reachable
  /\ attempts' = attempts - 1
  /\ isConnecting' = FALSE
  /\ readyState' = IF attempts = 1 THEN Disconnected ELSE readyState
  /\ timers' = retryTimers(timers)
  /\ UNCHANGED <<posts, comments, users, cloud, req, now, nextPostId, returned,
                 started, applications, visitors, listeners, reachable>>

\* lines 747-751: the connection is lost; every registered 'disconnected'
\* handler sets a timer.  The connection is lost at most MaxListeners - 1
\* times in one behaviour.
ConnectionLost ==
  /\ readyState = Connected
  /\ listeners < MaxListeners
  /\ readyState' = Disconnected
  /\ timers' = timers + listeners
  /\ UNCHANGED <<posts, comments, users, cloud, req, now, nextPostId, returned,
                 started, applications, visitors, isConnecting, attempts,
                 listeners, reachable>>

\* the environment: the database server goes away and comes back
Outage ==
  /\ reachable
  /\ reachable' = FALSE
  /\ UNCHANGED <<posts, comments, users, cloud, req, now, nextPostId, returned,
                 started, applications, visitors, isConnecting, readyState,
                 attempts, timers, listeners>>

Recovery ==
  /\ ~reachable
  /\ reachable' = TRUE
  /\ UNCHANGED <<posts, comments, users, cloud, req, now, nextPostId, returned,
                 started, applications, visitors, isConnecting, readyState,
                 attempts, timers, listeners>>

NextDB ==
  \/ StartServer
  \/ TimerFires
  \/ ConnectResolves
  \/ ConnectRejects
  \/ ConnectionLost
  \/ Outage
  \/ Recovery

SpecDB == Init /\ [][NextDB]_vars

\* timers fire and the promise of mongoose.connect settles
\* (serverSelectionTimeoutMS bounds the wait of an attempt)
SpecDBFair ==
  /\ Init
  /\ [][NextDB]_vars
  /\ WF_vars(StartServer)
  /\ WF_vars(TimerFires)
  /\ WF_vars(ConnectResolves)
  /\ WF_vars(ConnectRejects)

\* C21: at most one connection attempt is in flight at any time, and a call
\* of connectDB (by startServer or by a timer) made while an attempt is in
\* flight or while the connection is up starts no attempt and leaves the
\* flag alone.
C21_NoDuplicateConnections ==
  [][/\ attempts' <= 1
     /\ (/\ started' # started \/ timers' < timers
         /\ attempts > 0 \/ readyState = Connected)
        => attempts' = attempts /\ isConnecting' = isConnecting]_vars

\* two handlers set two timers at a loss of the connection; the first timer
\* started the attempt, the second one fired during it and returned
C21_Witness ==
  /\ listeners = 2
  /\ timers = 0
  /\ attempts = 1
  /\ isConnecting

\* C22: from any moment from which the database stays reachable, a
\* connection is eventually established: every failed attempt clears the
\* flag and leaves a timer that calls connectDB again.
C22_EventuallyConnected == []([]reachable => <>(readyState = Connected))

\* an attempt has failed, its timer is pending, the flag is clear and the
\* server is back
C22_Witness ==
  /\ started = 1
  /\ readyState = Disconnected
  /\ ~isConnecting
  /\ attempts = 0
  /\ listeners = 0
  /\ timers = 1
  /\ reachable

(***************************************************************************)
(* applyForId (NGO controller, part_002 582-696) over the NgoApplication   *)
(* collection (ngoApplication.model.js)                                    *)
(***************************************************************************)
\* e-mail addresses are sequences over the alphabet and "@", "."
Address == <<"a", "@", "a", ".", "a">>

\* the addresses a request may carry: missing, plain, upper-case, padded
\* with blanks, another mailbox, without a dot, with a blank inside
ApplyEmails ==
  { <<>>,
    Address,
    <<"A", "@", "a", ".", "a">>,
    <<" ", "a", "@", "a", ".", "a", " ">>,
    <<"1", "@", "a", ".", "a">>,
    <<"a", "@", "a">>,
    <<"a", " ", "@", "a", ".", "a">> }

\* Math.random() draws the number of the NGO id from a small range
NgoNumbers == {1, 2}

\* line 604: the pattern ^[^\s@]+@[^\s@]+\.[^\s@]+$
emailRegex(s) ==
  \E i \in 2..Len(s) :
    /\ s[i] = "@"
    /\ \A k \in (1..Len(s)) \ {i} : ~IsSpace(s[k]) /\ s[k] # "@"
    /\ \E j \in (i + 2)..(Len(s) - 1) : s[j] = "."

\* the schema setters of email: lowercase, trim (ngoApplication.model.js 8)
emailSetters(email) == trim(toLowerCase(email))

\* a collection without a unique index on email
emailIndexOff(store, email) == FALSE

\* ngoApplication.model.js 8: the unique index on email
emailIndexRejects(store, email) == \E a \in store : a.email = email

\* ngoApplication.model.js 13: the unique index on ngoId
ngoIdIndexRejects(store, ngoId) == \E a \in store : a.ngoId = ngoId

\* the public ids of the two uploads (lines 632, 649-654)
photoKey(ngoId) == "ngo-id-photos/NGO-" \o ToString(ngoId)
cardKey(ngoId) == "ngo-id-cards/NGO-" \o ToString(ngoId) \o "-card"

\* lines 681-695: the catch block of applyForId
applyForIdCatch(err) ==
  IF err.code = DuplicateKey
  THEN [status |-> 400, message |-> "Email or NGO ID already exists"]
  ELSE [status |-> 500, message |-> "Server error"]

\* lines 582-613: the fields are checked, the address is lower-cased,
\* trimmed and matched against the pattern, then findOne is awaited
ApplyForId(r) ==
  /\ accepts(r)
  /\ \E email \in ApplyEmails :
       LET sanitizedEmail == trim(toLowerCase(email))
           slot == [Idle EXCEPT !.op = "applyForId", !.sanitizedEmail = sanitizedEmail]
       IN  req' = [req EXCEPT ![r] =
                     IF email = <<>>
                     THEN respond(slot, 400, "All fields are required")
                     ELSE IF ~emailRegex(sanitizedEmail)
                     THEN respond(slot, 400, "Invalid email format")
                     ELSE [slot EXCEPT !.pc = "findOne"]]
  /\ started' = started + 1
  /\ UNCHANGED <<posts, comments, users, cloud, now, nextPostId, returned,
                 applications, visitors, dbVars>>

\* lines 613-628: NgoApplication.findOne({ email }); an existing application
\* is returned, otherwise the NGO id is drawn and the photo upload awaited
ApplyFindOne(r) ==
  /\ req[r].pc = "findOne"
  /\ req[r].op = "applyForId"
  /\ \E randomNum \in NgoNumbers :
       LET slot == req[r]
           found == {a \in applications : a.email = emailSetters(slot.sanitizedEmail)}
       IN  req' = [req EXCEPT ![r] =
                     IF found # {}
                     THEN respond([slot EXCEPT !.application = CHOOSE a \in found : TRUE,
                                               !.alreadyExists = TRUE],
                                  200, "Application already exists")
                     ELSE [slot EXCEPT !.ngoId = randomNum, !.pc = "uploadPhoto"]]
  /\ UNCHANGED <<posts, comments, users, cloud, now, nextPostId, returned, started,
                 applications, visitors, dbVars>>

\* line 632: uploadToCloudinary(photoBuffer, "ngo-id-photos", ngoId)
ApplyUploadPhoto(r) ==
  /\ req[r].pc = "uploadPhoto"
  /\ \E outcome \in UploadOutcomes :
       LET slot == req[r]
       IN  IF outcome = "stored"
           THEN /\ cloud' = cloud \cup {photoKey(slot.ngoId)}
                /\ req' = [req EXCEPT ![r] = [slot EXCEPT !.pc = "render"]]
           ELSE /\ cloud' = cloud
                /\ req' = [req EXCEPT ![r] =
                             respond([slot EXCEPT !.error = UpstreamError],
                                     applyForIdCatch(UpstreamError).status,
                                     applyForIdCatch(UpstreamError).message)]
  /\ UNCHANGED <<posts, comments, users, now, nextPostId, returned, started,
                 applications, visitors, dbVars>>

\* line 646: generateImageFromHTML renders the card, or throws
ApplyRender(r) ==
  /\ req[r].pc = "render"
  /\ \E outcome \in {"rendered", "throw"} :
       LET slot == req[r]
       IN  req' = [req EXCEPT ![r] =
                     IF outcome = "rendered"
                     THEN [slot EXCEPT !.pc = "uploadCard"]
                     ELSE respond([slot EXCEPT !.error = UpstreamError],
                                  applyForIdCatch(UpstreamError).status,
                                  applyForIdCatch(UpstreamError).message)]
  /\ UNCHANGED <<posts, comments, users, cloud, now, nextPostId, returned, started,
                 applications, visitors, dbVars>>

\* lines 649-654: uploadToCloudinary(imageBuffer, "ngo-id-cards", ngoId-card)
ApplyUploadCard(r) ==
  /\ req[r].pc = "uploadCard"
  /\ \E outcome \in UploadOutcomes :
       LET slot == req[r]
       IN  IF outcome = "stored"
           THEN /\ cloud' = cloud \cup {cardKey(slot.ngoId)}
                /\ req' = [req EXCEPT ![r] = [slot EXCEPT !.pc = "create"]]
           ELSE /\ cloud' = cloud
                /\ req' = [req EXCEPT ![r] =
                             respond([slot EXCEPT !.error = UpstreamError],
                                     applyForIdCatch(UpstreamError).status,
                                     applyForIdCatch(UpstreamError).message)]
  /\ UNCHANGED <<posts, comments, users, now, nextPostId, returned, started,
                 applications, visitors, dbVars>>

\* lines 657-679: NgoApplication.create under the two unique indexes
ApplyCreate(r) ==
  /\ req[r].pc = "create"
  /\ LET slot == req[r]
         doc == [email |-> emailSetters(slot.sanitizedEmail), ngoId |-> slot.ngoId,
                 status |-> "approved"]
         err == IF \/ emailIndexRejects(applications, doc.email)
                   \/ ngoIdIndexRejects(applications, doc.ngoId)
                THEN DuplicateKeyError ELSE NoError
     IN  IF err = NoError
         THEN /\ applications' = applications \cup {doc}
              /\ req' = [req EXCEPT ![r] =
                           respond([slot EXCEPT !.application = doc], 201,
                                   "Application submitted successfully")]
         ELSE /\ applications' = applications
              /\ req' = [req EXCEPT ![r] =
                           respond([slot EXCEPT !.error = err],
                                   applyForIdCatch(err).status,
                                   applyForIdCatch(err).message)]
  /\ UNCHANGED <<posts, comments, users, cloud, now, nextPostId, returned, started,
                 visitors, dbVars>>

NextApply ==
  \E r \in Reqs :
    \/ ApplyForId(r)
    \/ ApplyFindOne(r)
    \/ ApplyUploadPhoto(r)
    \/ ApplyRender(r)
    \/ ApplyUploadCard(r)
    \/ ApplyCreate(r)
    \/ Respond(r)

SpecApply == Init /\ [][NextApply]_vars

\* C23: at most one application exists per lower-cased, trimmed address, and
\* an applyForId request whose address has an application when the handler
\* looks it up answers 200 with that application and alreadyExists = true,
\* and neither the asset store nor the collection changes.
C23_OneApplicationPerEmail ==
  [][/\ \A a, b \in applications' :
          trim(toLowerCase(a.email)) = trim(toLowerCase(b.email)) => a = b
     /\ \A r \in Reqs :
          (/\ req[r].op = "applyForId"
           /\ req[r].pc = "findOne"
           /\ req'[r] # req[r]
           /\ \E a \in applications : a.email = req[r].sanitizedEmail)
          => /\ req'[r].pc = "done"
             /\ req'[r].status = 200
             /\ req'[r].alreadyExists
             /\ req'[r].application \in applications
             /\ req'[r].application.email = req[r].sanitizedEmail
             /\ cloud' = cloud
             /\ applications' = applications]_vars

\* a second request with the same address in upper case got the stored
\* application back, and a request that raced the first one was refused
C23_Witness ==
  /\ Cardinality(applications) = 1
  /\ \E r \in Reqs :
       /\ req[r].op = "applyForId"
       /\ req[r].pc = "done"
       /\ req[r].alreadyExists
       /\ req[r].application \in applications

(***************************************************************************)
(* likeComment, editComment, deleteComment (comment.controller.js 60-139)  *)
(* over comments that carry likes, numberOfLikes and the version key       *)
(***************************************************************************)
\* values as the handlers see them: req.user.id and request parameters are
\* strings, the ids of a loaded document are ObjectId objects
JsString(id) == [type |-> "string", value |-> id]
ObjectId(id) == [type |-> "object", value |-> id]

\* a === b: strings are equal by value, an object only to itself, and no
\* object of a loaded document is an object of the request
strictEquals(a, b) == a.type = "string" /\ b.type = "string" /\ a.value = b.value

\* MongooseArray.indexOf: the ids are compared by value; -1 when absent
indexOf(likes, id) ==
  IF \E k \in 1..Len(likes) : likes[k] = id
  THEN (CHOOSE k \in 1..Len(likes) :
          likes[k] = id /\ \A j \in 1..(k - 1) : likes[j] # id) - 1
  ELSE -1

\* likes.splice(index, 1)
splice(likes, index) ==
  [k \in 1..(Len(likes) - 1) |-> IF k <= index THEN likes[k] ELSE likes[k + 1]]

VersionError == [code |-> 0, name |-> "VersionError"]

\* the comments the requests start from: one by the user without the admin
\* flag, one by an admin that user 3 likes
LikedComments ==
  { [id |-> 1, postId |-> 1, userId |-> 3, content |-> <<"a">>,
     likes |-> <<>>, numberOfLikes |-> 0, v |-> 0],
    [id |-> 2, postId |-> 1, userId |-> 1, content |-> <<"a">>,
     likes |-> <<3>>, numberOfLikes |-> 1, v |-> 1] }

\* req.params.commentId: the two comments and an id no comment has
CommentIds == {1, 2, 3}

\* req.body.content of editComment: missing, text, blank
Contents == {<<>>, <<"1">>, <<" ">>}

InitComment ==
  /\ posts = {}
  /\ comments = LikedComments
  /\ users = InitialUsers
  /\ cloud = {"profiles/user_1", "blog/img_1", "blog/img_2"}
  /\ req = [r \in Reqs |-> Idle]
  /\ now = 0
  /\ nextPostId = 1
  /\ returned = <<>>
  /\ started = 0
  /\ InitOther

\* line 62: likeComment awaits Comment.findById
LikeComment(r) ==
  /\ accepts(r)
  /\ \E caller \in Users, commentId \in CommentIds :
       req' = [req EXCEPT ![r] =
                 [Idle EXCEPT !.op = "likeComment", !.caller = caller,
                              !.commentId = commentId, !.pc = "findComment"]]
  /\ started' = started + 1
  /\ UNCHANGED <<posts, comments, users, cloud, now, nextPostId, returned,
                 applications, visitors, dbVars>>

\* lines 63-79: the loaded comment gets the caller's id pushed, or spliced
\* out, and numberOfLikes moved by one; then save is awaited
LikeCommentFind(r) ==
  /\ req[r].pc = "findComment"
  /\ req[r].op = "likeComment"
  /\ LET slot == req[r]
         found == findById(comments, slot.commentId)
         comment == CHOOSE c \in found : TRUE
         userIndex == indexOf(comment.likes, slot.caller)
     IN  req' = [req EXCEPT ![r] =
                   IF found = {} THEN respond(slot, 404, "Comment not found")
                   ELSE IF userIndex = -1
                   THEN [slot EXCEPT
                           !.doc = [comment EXCEPT
                                      !.likes = Append(comment.likes, slot.caller),
                                      !.numberOfLikes = comment.numberOfLikes + 1],
                           !.atomic = "$push", !.pc = "saveComment"]
                   ELSE [slot EXCEPT
                           !.doc = [comment EXCEPT
                                      !.likes = splice(comment.likes, userIndex),
                                      !.numberOfLikes = comment.numberOfLikes - 1],
                           !.atomic = "$set", !.pc = "saveComment"]]
  /\ UNCHANGED <<posts, comments, users, cloud, now, nextPostId, returned, started,
                 applications, visitors, dbVars>>

\* line 79: comment.save() sends the modified paths.  A push is sent as
\* $push of the new id; a spliced array is sent whole with $set and is
\* written only if the stored version is the loaded one; numberOfLikes is
\* sent with $set; the version key is incremented.
LikeCommentSave(r) ==
  /\ req[r].pc = "saveComment"
  /\ req[r].op = "likeComment"
  /\ LET slot == req[r]
         found == findById(comments, slot.commentId)
         stored == CHOOSE c \in found : TRUE
         err == IF found = {} THEN DocumentNotFoundError
                ELSE IF slot.atomic = "$set" /\ stored.v # slot.doc.v THEN VersionError
                ELSE NoError
         written == [stored EXCEPT
                       !.likes = IF slot.atomic = "$push"
                                 THEN Append(stored.likes, slot.caller)
                                 ELSE slot.doc.likes,
                       !.numberOfLikes = slot.doc.numberOfLikes,
                       !.v = stored.v + 1]
     IN  IF err = NoError
         THEN /\ comments' = (comments \ found) \cup {written}
              /\ req' = [req EXCEPT ![r] = respond(slot, 200, "comment")]
         ELSE /\ comments' = comments
              /\ req' = [req EXCEPT ![r] =
                           respond([slot EXCEPT !.error = err],
                                   errorMiddleware(err).status, errorMiddleware(err).message)]
  /\ UNCHANGED <<posts, users, cloud, now, nextPostId, returned, started,
                 applications, visitors, dbVars>>

\* line 91: editComment awaits Comment.findById
EditComment(r) ==
  /\ accepts(r)
  /\ \E caller \in Users, commentId \in CommentIds, content \in Contents :
       req' = [req EXCEPT ![r] =
                 [Idle EXCEPT !.op = "editComment", !.caller = caller,
                              !.admin = caller \in Admins,
                              !.commentId = commentId, !.content = content,
                              !.pc = "findComment"]]
  /\ started' = started + 1
  /\ UNCHANGED <<posts, comments, users, cloud, now, nextPostId, returned,
                 applications, visitors, dbVars>>

\* lines 97 and 130: comment.userId !== req.user.id && !req.user.isAdmin
notAllowed(comment, slot) ==
  ~strictEquals(ObjectId(comment.userId), JsString(slot.caller)) /\ ~slot.admin

\* lines 92-111: not found, the authorization check, the content checks,
\* then comment.content is set and save is awaited
EditCommentFind(r) ==
  /\ req[r].pc = "findComment"
  /\ req[r].op = "editComment"
  /\ LET slot == req[r]
         found == findById(comments, slot.commentId)
         comment == CHOOSE c \in found : TRUE
     IN  req' = [req EXCEPT ![r] =
                   IF found = {} THEN respond(slot, 404, "Comment not found")
                   ELSE IF notAllowed(comment, slot)
                   THEN respond(slot, 403, "You are not allowed to edit this comment")
                   ELSE IF slot.content = <<>> \/ trim(slot.content) = <<>>
                   THEN respond(slot, 400, "Comment content is required")
                   ELSE IF Len(slot.content) > CommentMaxLen
                   THEN respond(slot, 400, "Comment must be less than 200 characters")
                   ELSE [slot EXCEPT !.doc = [comment EXCEPT !.content = trim(slot.content)],
                                     !.pc = "saveComment"]]
  /\ UNCHANGED <<posts, comments, users, cloud, now, nextPostId, returned, started,
                 applications, visitors, dbVars>>

\* lines 111-113: comment.save() writes content
EditCommentSave(r) ==
  /\ req[r].pc = "saveComment"
  /\ req[r].op = "editComment"
  /\ LET slot == req[r]
         found == findById(comments, slot.commentId)
         stored == CHOOSE c \in found : TRUE
     IN  IF found # {}
         THEN /\ comments' = (comments \ found) \cup
                               {[stored EXCEPT !.content = slot.doc.content]}
              /\ req' = [req EXCEPT ![r] = respond(slot, 200, "comment")]
         ELSE /\ comments' = comments
              /\ req' = [req EXCEPT ![r] =
                           respond([slot EXCEPT !.error = DocumentNotFoundError],
                                   errorMiddleware(DocumentNotFoundError).status,
                                   errorMiddleware(DocumentNotFoundError).message)]
  /\ UNCHANGED <<posts, users, cloud, now, nextPostId, returned, started,
                 applications, visitors, dbVars>>

\* line 124: deleteComment awaits Comment.findById
DeleteComment(r) ==
  /\ accepts(r)
  /\ \E caller \in Users, commentId \in CommentIds :
       req' = [req EXCEPT ![r] =
                 [Idle EXCEPT !.op = "deleteComment", !.caller = caller,
                              !.admin = caller \in Admins,
                              !.commentId = commentId, !.pc = "findComment"]]
  /\ started' = started + 1
  /\ UNCHANGED <<posts, comments, users, cloud, now, nextPostId, returned,
                 applications, visitors, dbVars>>

\* lines 125-132: not found, the authorization check, then deleteOne
DeleteCommentFind(r) ==
  /\ req[r].pc = "findComment"
  /\ req[r].op = "deleteComment"
  /\ LET slot == req[r]
         found == findById(comments, slot.commentId)
         comment == CHOOSE c \in found : TRUE
     IN  req' = [req EXCEPT ![r] =
                   IF found = {} THEN respond(slot, 404, "Comment not found")
                   ELSE IF notAllowed(comment, slot)
                   THEN respond(slot, 403, "You are not allowed to delete this comment")
                   ELSE [slot EXCEPT !.pc = "deleteOne"]]
  /\ UNCHANGED <<posts, comments, users, cloud, now, nextPostId, returned, started,
                 applications, visitors, dbVars>>

\* lines 134-135: comment.deleteOne() removes the document with the id
DeleteCommentOne(r) ==
  /\ req[r].pc = "deleteOne"
  /\ req[r].op = "deleteComment"
  /\ comments' = comments \ findById(comments, req[r].commentId)
  /\ req' = [req EXCEPT ![r] = respond(req[r], 200, "Comment has been deleted")]
  /\ UNCHANGED <<posts, users, cloud, now, nextPostId, returned, started,
                 applications, visitors, dbVars>>

NextComment ==
  \E r \in Reqs :
    \/ LikeComment(r)
    \/ LikeCommentFind(r)
    \/ LikeCommentSave(r)
    \/ EditComment(r)
    \/ EditCommentFind(r)
    \/ EditCommentSave(r)
    \/ DeleteComment(r)
    \/ DeleteCommentFind(r)
    \/ DeleteCommentOne(r)
    \/ Respond(r)

SpecComment == InitComment /\ [][NextComment]_vars

\* C24: on every comment numberOfLikes is the number of entries of likes,
\* no user id occurs twice in likes, and numberOfLikes is not negative.
C24_LikesCounted ==
  \A c \in comments :
    /\ c.numberOfLikes = Len(c.likes)
    /\ \A j, k \in 1..Len(c.likes) : c.likes[j] = c.likes[k] => j = k
    /\ c.numberOfLikes >= 0

\* C25: when editComment or deleteComment has loaded the comment for a
\* caller without the admin flag, the request is refused with 403 exactly
\* when the caller is not the user the comment's userId names.
C25_AuthorAccepted ==
  [][\A r \in Reqs :
       (/\ req[r].op \in {"editComment", "deleteComment"}
        /\ req[r].pc = "findComment"
        /\ req'[r] # req[r]
        /\ req[r].caller \notin Admins
        /\ findById(comments, req[r].commentId) # {})
       => (req'[r].status = 403
           <=> \A c \in findById(comments, req[r].commentId) :
                 c.userId # req[r].caller)]_vars

\* C26: the cleanup that updatepost and updateUser run for the previous URL
\* leaves the asset of the new URL in place: no deleteFromCloudinary step of
\* such a request removes the public id the request's new URL refers to.
C26_NewAssetKept ==
  [][\A r \in Reqs :
       (/\ req[r].op \in {"updatepost", "updateUser"}
        /\ req[r].pc = "destroy"
        /\ req'[r] # req[r]
        /\ req[r].image # NoImage
        /\ extractPublicId(req[r].image) \in cloud)
       => extractPublicId(req[r].image) \in cloud']_vars

\* C27: an updateUser request that ends with an error has changed no user
\* record and has deleted no asset.
C27_FailedUpdateHasNoEffect ==
  [][\A r \in Reqs :
       (/\ req[r].op = "updateUser"
        /\ req[r].pc # "done"
        /\ req'[r].pc = "done"
        /\ req'[r].status # 200)
       => /\ users' = users
          /\ req'[r].result # "ok"]_vars

(***************************************************************************)
(* trackVisitor (visitor.controller.js 3-33) over the Visitor collection   *)
(* (visitor.model.js, part_004 3-12)                                       *)
(***************************************************************************)
\* the addresses and user agents the requests come from
Ips == {"10.0.0.1", "10.0.0.2"}
UserAgents == {"curl", "firefox"}

\* part_004 12: the unique index on { ip, userAgent }
visitorIndexRejects(store, ip, userAgent) ==
  \E v \in store : v.ip = ip /\ v.userAgent = userAgent

\* the $sum of visits over every record
RECURSIVE sumVisits(_)
sumVisits(store) ==
  IF store = {} THEN 0
  ELSE LET v == CHOOSE w \in store : TRUE
       IN  v.visits + sumVisits(store \ {v})

\* lines 5-11: ip and userAgent are read and Visitor.findOne is awaited
TrackVisitor(r) ==
  /\ accepts(r)
  /\ \E ip \in Ips, userAgent \in UserAgents :
       req' = [req EXCEPT ![r] =
                 [Idle EXCEPT !.op = "trackVisitor", !.ip = ip,
                              !.userAgent = userAgent, !.pc = "findVisitor"]]
  /\ started' = started + 1
  /\ UNCHANGED <<posts, comments, users, cloud, now, nextPostId, returned,
                 applications, visitors, dbVars>>

\* lines 11-17: the record is loaded and visits += 1 is computed on it, or
\* no record is found and Visitor.create is awaited
TrackVisitorFind(r) ==
  /\ req[r].pc = "findVisitor"
  /\ LET slot == req[r]
         found == {v \in visitors : v.ip = slot.ip /\ v.userAgent = slot.userAgent}
         visitor == CHOOSE v \in found : TRUE
     IN  req' = [req EXCEPT ![r] =
                   IF found # {}
                   THEN [slot EXCEPT !.doc = [visitor EXCEPT !.visits = visitor.visits + 1],
                                     !.pc = "saveVisitor"]
                   ELSE [slot EXCEPT !.pc = "createVisitor"]]
  /\ UNCHANGED <<posts, comments, users, cloud, now, nextPostId, returned, started,
                 applications, visitors, dbVars>>

\* line 15: visitor.save() writes the computed value of visits
TrackVisitorSave(r) ==
  /\ req[r].pc = "saveVisitor"
  /\ LET slot == req[r]
         found == {v \in visitors : v.ip = slot.ip /\ v.userAgent = slot.userAgent}
     IN  /\ visitors' = (visitors \ found) \cup
                          {[v EXCEPT !.visits = slot.doc.visits] : v \in found}
         /\ req' = [req EXCEPT ![r] = [slot EXCEPT !.pc = "aggregate"]]
  /\ UNCHANGED <<posts, comments, users, cloud, now, nextPostId, returned, started,
                 applications, dbVars>>

\* lines 17 and 30-32: Visitor.create with visits at its default 1; the
\* unique index rejects a second record of the pair and the catch block
\* answers 500
TrackVisitorCreate(r) ==
  /\ req[r].pc = "createVisitor"
  /\ LET slot == req[r]
     IN  IF visitorIndexRejects(visitors, slot.ip, slot.userAgent)
         THEN /\ visitors' = visitors
              /\ req' = [req EXCEPT ![r] =
                           respond([slot EXCEPT !.error = DuplicateKeyError],
                                   500, "Visitor tracking failed")]
         ELSE /\ visitors' = visitors \cup
                               {[ip |-> slot.ip, userAgent |-> slot.userAgent, visits |-> 1]}
              /\ req' = [req EXCEPT ![r] = [slot EXCEPT !.pc = "aggregate"]]
  /\ UNCHANGED <<posts, comments, users, cloud, now, nextPostId, returned, started,
                 applications, dbVars>>

\* lines 20-22: the aggregate that sums visits
TrackVisitorAggregate(r) ==
  /\ req[r].pc = "aggregate"
  /\ req' = [req EXCEPT ![r] = [req[r] EXCEPT !.totalVisits = sumVisits(visitors),
                                              !.pc = "countDocuments"]]
  /\ UNCHANGED <<posts, comments, users, cloud, now, nextPostId, returned, started,
                 applications, visitors, dbVars>>

\* lines 24-29: countDocuments and the answer
TrackVisitorCount(r) ==
  /\ req[r].pc = "countDocuments"
  /\ req' = [req EXCEPT ![r] =
               respond([req[r] EXCEPT !.uniqueVisitors = Cardinality(visitors)],
                       200, "totalVisits, uniqueVisitors")]
  /\ UNCHANGED <<posts, comments, users, cloud, now, nextPostId, returned, started,
                 applications, visitors, dbVars>>

NextVisitor ==
  \E r \in Reqs :
    \/ TrackVisitor(r)
    \/ TrackVisitorFind(r)
    \/ TrackVisitorSave(r)
    \/ TrackVisitorCreate(r)
    \/ TrackVisitorAggregate(r)
    \/ TrackVisitorCount(r)
    \/ Respond(r)

SpecVisitor == Init /\ [][NextVisitor]_vars

\* C28: every trackVisitor request ends with a success answer, no two
\* visitor records share a pair (ip, userAgent), and once no request is in
\* flight the visits of all records add up to the number of requests
\* received.
C28_EveryVisitCounted ==
  /\ \A r \in Reqs :
       req[r].op = "trackVisitor" /\ req[r].pc = "done" => req[r].status = 200
  /\ \A v, w \in visitors : v.ip = w.ip /\ v.userAgent = w.userAgent => v = w
  /\ (\A r \in Reqs : req[r].pc \in {"idle", "done"}) => sumVisits(visitors) = started

====
